---- MODULE Spec2Model ----
(***************************************************************************)
(* A model of the blendoc reader stack: the SDNA field declarators, the    *)
(* address-range pointer index, the reference scanner, and the traversals  *)
(* built on them (chase, walk, graph, route, xref).                        *)
(*                                                                         *)
(* Rust's Option<T> is a sequence of length 0 (None) or 1 (Some(x)).       *)
(* Vec indices are 0-based in the source and 1-based here: v[i] in the     *)
(* source is v[i + 1] in the model.                                        *)
(***************************************************************************)
EXTENDS Integers, Sequences, FiniteSets, TLC

VARIABLES
    dna,              \* Dna: names, types, tlen, structs, struct_for_type
    blocks,           \* the file's blocks in file order (BlockIter output)
    index,            \* PointerIndex: storage, starts, entries
    ids,              \* IdIndex.records
    op,               \* the call being made: its name, arguments and options
    pc,               \* position inside the call
    result,           \* the call's return value (Ok(..) or Err(..))
    current,          \* chase_value: current / walk_ptr_chain: current
    step_index,       \* chase_value: step_index / walk_ptr_chain: step
    hops,             \* chase_value: hops
    visited,          \* chase_value, walk_ptr_chain, find_route_between_ptrs: visited
    items,            \* walk_ptr_chain: items
    queue,            \* build_graph_from_ptr, find_route_between_ptrs: queue
    nodes_by_ptr,     \* build_graph_from_ptr: nodes_by_ptr (its key set)
    edges,            \* build_graph_from_ptr: edges
    parents,          \* find_route_between_ptrs: parents
    visited_edges,    \* find_route_between_ptrs: visited_edges
    truncated,        \* build_graph_from_ptr, find_route_between_ptrs: truncated
    hit_depth_limit,  \* build_graph_from_ptr, find_route_between_ptrs: hit_depth_limit
    out,              \* find_inbound_refs_to_ptr: out / the values BlockIter::next returned
    iter              \* BlockIter: cursor, offset_base, header, done

\* what the traversal calls leave alone: the parsed file, and the block
\* iterator, which none of them holds
world == <<dna, blocks, index, ids, iter>>
locals == <<current, step_index, hops, visited, items, queue, nodes_by_ptr,
            edges, parents, visited_edges, truncated, hit_depth_limit, out>>
vars == <<dna, blocks, index, ids, op, pc, result, current, step_index, hops,
          visited, items, queue, nodes_by_ptr, edges, parents, visited_edges,
          truncated, hit_depth_limit, out, iter>>

----------------------------------------------------------------------------
(* Bounds of the model. *)

\* Largest pointer value queried against the index in SpecIndex.
MaxAddr == 24
\* Largest value of a traversal limit (max_hops, max_steps, max_depth,
\* max_nodes, max_edges, max_visited) drawn in Init.
MaxLimit == 3

----------------------------------------------------------------------------
(* Option and small helpers. *)

None == << >>
Some(x) == << x >>
IsSome(o) == Len(o) = 1
IsNone(o) == Len(o) = 0
Unwrap(o) == o[1]

\* let x = v; F(x): v is evaluated once and F works on its value
Let(v, F(_)) == CHOOSE r \in {F(x) : x \in {v}} : TRUE

Ok(v) == [ok |-> TRUE, v |-> v]
Err(e) == [ok |-> FALSE, e |-> e]

Min(a, b) == IF a <= b THEN a ELSE b

RECURSIVE Pow256(_)
Pow256(n) == IF n = 0 THEN 1 ELSE 256 * Pow256(n - 1)

Zeros(n) == [i \in 1..n |-> 0]

\* u64::to_le_bytes, for the values below 2^31 the model stores
LeBytes8(v) == [i \in 1..8 |-> IF i <= 4 THEN (v \div Pow256(i - 1)) % 256 ELSE 0]

\* bytes[from .. from + n) of a 0-based slice
Slice(bytes, from, n) == SubSeq(bytes, from + 1, from + n)

----------------------------------------------------------------------------
(* Cursor (bytes.rs). A cursor is the pair bytes, pos; reads return         *)
(* Err("UnexpectedEof") when fewer than n bytes remain.                     *)

Cursor_remaining(bytes, pos) == IF Len(bytes) >= pos THEN Len(bytes) - pos ELSE 0

Cursor_can_read(bytes, pos, n) == n <= Cursor_remaining(bytes, pos)

RECURSIVE SumLe(_, _)
SumLe(raw, i) ==
    IF i > Len(raw) THEN 0
    ELSE (IF raw[i] = 0 THEN 0 ELSE raw[i] * Pow256(i - 1)) + SumLe(raw, i + 1)

\* u64::from_le_bytes of the 8 bytes at pos
Cursor_read_u64_le(bytes, pos) == Let(Slice(bytes, pos, 8), LAMBDA raw : SumLe(raw, 1))

----------------------------------------------------------------------------
(* Field declarators (decl.rs). A raw declarator is the sequence of its     *)
(* tokens: "*next" is <<"*", "next">>, "v[2]" is <<"v", "[", "2", "]">>.    *)

RECURSIVE JoinTokens(_)
JoinTokens(toks) ==
    IF toks = << >> THEN "" ELSE Head(toks) \o JoinTokens(Tail(toks))

\* str::find of a one-token pattern: 1-based place, 0 when absent
FindToken(toks, tok) ==
    IF \E i \in 1..Len(toks) : toks[i] = tok
    THEN CHOOSE i \in 1..Len(toks) :
            toks[i] = tok /\ \A j \in 1..(i - 1) : toks[j] # tok
    ELSE 0

\* str::find of a two-token pattern such as "(*"
FindToken2(toks, a, b) ==
    IF \E i \in 1..(Len(toks) - 1) : toks[i] = a /\ toks[i + 1] = b
    THEN CHOOSE i \in 1..(Len(toks) - 1) :
            /\ toks[i] = a /\ toks[i + 1] = b
            /\ \A j \in 1..(i - 1) : ~(toks[j] = a /\ toks[j + 1] = b)
    ELSE 0

\* chars().take_while(|c| *c == '*').count()
LeadingStars(toks) ==
    Cardinality({i \in 1..Len(toks) : \A j \in 1..i : toks[j] = "*"})

\* str::parse::<usize>() of one array dimension
ParseUsize(toks) ==
    IF Len(toks) # 1 THEN None
    ELSE CASE toks[1] = "0" -> Some(0)
           [] toks[1] = "1" -> Some(1)
           [] toks[1] = "2" -> Some(2)
           [] toks[1] = "3" -> Some(3)
           [] toks[1] = "4" -> Some(4)
           [] OTHER -> None

\* one pass of the while-let loop: after is what follows the "[" at start
ArrayDim(after, close) ==
    Let(ParseUsize(SubSeq(after, 1, close - 1)), LAMBDA dim :
        IF IsSome(dim) THEN Unwrap(dim) ELSE 1)

\* the while-let loop over "[n]" suffixes
RECURSIVE ArrayTotal(_, _)
ArrayTotal(tail, total) ==
    Let(FindToken(tail, "["), LAMBDA start :
        IF start = 0 THEN total
        ELSE Let(SubSeq(tail, start + 1, Len(tail)), LAMBDA after :
                 Let(FindToken(after, "]"), LAMBDA close :
                     IF close = 0 THEN total
                     ELSE Let(<< SubSeq(after, close + 1, Len(after)),
                                 total * ArrayDim(after, close) >>,
                              LAMBDA rest : ArrayTotal(rest[1], rest[2])))))

\* the declarator "(*ident)(...)" or "(*ident)", inside being what stands
\* between "(*" and ")"
ParenDecl(raw, inside, is_func_ptr) ==
    Let(LeadingStars(inside), LAMBDA stars :
        Let(SubSeq(inside, stars + 1, Len(inside)), LAMBDA ident :
            [ident |-> IF ident = << >> THEN JoinTokens(raw) ELSE JoinTokens(ident),
             ptr_depth |-> stars + 1,
             inline_array |-> 1,
             is_func_ptr |-> is_func_ptr,
             is_paren_ptr |-> TRUE]))

\* the declarator "**ident[n][m]", tail being what follows the leading stars
PlainDecl(raw, stars, tail, is_func_ptr) ==
    Let(FindToken(tail, "["), LAMBDA bracket :
        Let(IF bracket = 0 THEN Len(tail) ELSE bracket - 1, LAMBDA ident_end :
            Let(SubSeq(tail, 1, ident_end), LAMBDA ident :
                [ident |-> IF ident = << >> THEN JoinTokens(raw) ELSE JoinTokens(ident),
                 ptr_depth |-> stars,
                 inline_array |->
                     IF is_func_ptr THEN 1
                     ELSE Let(SubSeq(tail, ident_end + 1, Len(tail)),
                              LAMBDA dims : ArrayTotal(dims, 1)),
                 is_func_ptr |-> is_func_ptr,
                 is_paren_ptr |-> FALSE])))

\* parse_field_decl once "(*" was looked for: start is its place, or 0
DeclFrom(raw, start, is_func_ptr) ==
    Let(SubSeq(raw, start + 2, Len(raw)), LAMBDA after :
        Let(IF start = 0 THEN 0 ELSE FindToken(after, ")"), LAMBDA close_idx :
            IF start # 0 /\ close_idx # 0
            THEN Let(SubSeq(after, 1, close_idx - 1), LAMBDA inside :
                     ParenDecl(raw, inside, is_func_ptr))
            ELSE Let(LeadingStars(raw), LAMBDA stars :
                     Let(SubSeq(raw, stars + 1, Len(raw)), LAMBDA tail :
                         PlainDecl(raw, stars, tail, is_func_ptr)))))

parse_field_decl(raw) ==
    Let(raw, LAMBDA toks :
        Let(<< FindToken2(toks, "(", "*"),
               \E i \in 1..(Len(toks) - 1) : toks[i] = ")" /\ toks[i + 1] = "(" >>,
            LAMBDA found : DeclFrom(toks, found[1], found[2])))

----------------------------------------------------------------------------
(* Dna (dna.rs): the accessors, and the synthetic schema the unit tests     *)
(* build by hand, extended with an int array, a 4-byte struct and an empty  *)
(* struct.                                                                  *)

Dna_struct_by_sdna(d, sdna_nr) ==
    IF sdna_nr < Len(d.structs) THEN Some(d.structs[sdna_nr + 1]) ELSE None

Dna_type_name(d, type_idx) == d.types[type_idx + 1]

Dna_field_name(d, name_idx) == d.names[name_idx + 1]

Dna_struct_for_type(d, type_idx) ==
    IF type_idx < Len(d.struct_for_type) THEN d.struct_for_type[type_idx + 1] ELSE None

\* struct Node { Node *next; Node *other; int v[2]; }   (24 bytes)
\* struct Tiny { int v; }                                (4 bytes)
\* struct Empty { }                                      (0 bytes)
NodeDna ==
    [names |-> << <<"*", "next">>, <<"*", "other">>, <<"v", "[", "2", "]">>, <<"v">> >>,
     types |-> <<"Node", "Tiny", "Empty", "int">>,
     tlen |-> <<24, 4, 0, 4>>,
     structs |-> << [type_idx |-> 0,
                     fields |-> << [type_idx |-> 0, name_idx |-> 0],
                                   [type_idx |-> 0, name_idx |-> 1],
                                   [type_idx |-> 3, name_idx |-> 2] >>],
                    [type_idx |-> 1,
                     fields |-> << [type_idx |-> 3, name_idx |-> 3] >>],
                    [type_idx |-> 2, fields |-> << >>] >>,
     struct_for_type |-> << Some(0), Some(1), Some(2), None >>]

----------------------------------------------------------------------------
(* PointerIndex (pointer.rs).                                               *)

\* Vec::sort_by_key(|entry| entry.start_old): a stable sort
RECURSIVE SortByStart(_)
SortByStart(entries) ==
    IF entries = << >> THEN << >>
    ELSE LET n == Len(entries)
             sorted == SortByStart(SubSeq(entries, 1, n - 1))
             e == entries[n]
             k == Cardinality({i \in 1..Len(sorted) : sorted[i].start_old <= e.start_old})
         IN  SubSeq(sorted, 1, k) \o <<e>> \o SubSeq(sorted, k + 1, Len(sorted))

PointerIndex_from_entries_for_test(entries, storage) ==
    LET sorted == SortByStart(entries)
    IN  [storage |-> storage,
         starts |-> [i \in 1..Len(sorted) |-> sorted[i].start_old],
         entries |-> sorted]

\* end of an entry's range in StableIds storage
StableIds_end_old(start_old) == start_old + 1

\* end of an entry's range in AddressRanges storage
AddressRanges_end_old(start_old, payload) == start_old + Len(payload)

RECURSIVE BuildEntries(_, _)
BuildEntries(bs, storage) ==
    IF bs = << >> THEN << >>
    ELSE LET block == Head(bs)
             rest == BuildEntries(Tail(bs), storage)
         IN  IF block.head.old = 0 \/ block.payload = << >> THEN rest
             ELSE << [start_old |-> block.head.old,
                      end_old |-> IF storage = "StableIds"
                                  THEN StableIds_end_old(block.head.old)
                                  ELSE AddressRanges_end_old(block.head.old, block.payload),
                      block |-> block] >> \o rest

PointerIndex_build(bs, storage) ==
    PointerIndex_from_entries_for_test(BuildEntries(bs, storage), storage)

\* a partition_point whose predicate is start < ptr
PartitionPoint_strict(starts, ptr) ==
    Cardinality({i \in 1..Len(starts) : starts[i] < ptr})

\* slice::partition_point(|start| *start <= ptr) on the sorted starts
PartitionPoint(starts, ptr) ==
    Cardinality({i \in 1..Len(starts) : starts[i] <= ptr})

\* a resolve whose range check is ptr > end_old
PointerIndex_resolve_end_inclusive(idx, ptr) ==
    IF ptr = 0 THEN None
    ELSE Let(PartitionPoint(idx.starts, ptr), LAMBDA i :
             IF i = 0 THEN None
             ELSE LET entry == idx.entries[i]
                  IN  IF ptr > entry.end_old THEN None
                      ELSE Some([entry |-> entry, byte_offset |-> ptr - entry.start_old]))

PointerIndex_resolve(idx, ptr) ==
    IF ptr = 0 THEN None
    ELSE Let(PartitionPoint(idx.starts, ptr), LAMBDA i :
             IF i = 0 THEN None
             ELSE LET entry == idx.entries[i]
                  IN  IF ptr >= entry.end_old THEN None
                      ELSE Some([entry |-> entry, byte_offset |-> ptr - entry.start_old]))

\* resolve_typed once the block of base is known to have the schema item
TypedOf(d, base, item) ==
    LET struct_size == d.tlen[item.type_idx + 1]
        nr == base.entry.block.head.nr
        max_bytes == struct_size * nr
    IN  IF struct_size = 0
        THEN Some([base |-> base, struct_size |-> struct_size,
                   element_index |-> None,
                   element_offset |-> base.byte_offset])
        ELSE Some([base |-> base, struct_size |-> struct_size,
                   element_index |->
                       IF base.byte_offset < max_bytes
                       THEN Some(base.byte_offset \div struct_size)
                       ELSE None,
                   element_offset |-> base.byte_offset % struct_size])

PointerIndex_resolve_typed(idx, d, ptr) ==
    Let(PointerIndex_resolve(idx, ptr), LAMBDA resolved :
        IF IsNone(resolved) THEN None
        ELSE Let(Dna_struct_by_sdna(d, Unwrap(resolved).entry.block.head.sdna_nr),
                 LAMBDA item :
                    IF IsNone(item) THEN None
                    ELSE TypedOf(d, Unwrap(resolved), Unwrap(item))))

\* a canonical_ptr that keeps the offset inside the element
PointerIndex_canonical_ptr_raw(idx, d, ptr) ==
    Let(PointerIndex_resolve_typed(idx, d, ptr), LAMBDA typed :
        IF IsNone(typed) THEN None
        ELSE IF IsNone(Unwrap(typed).element_index) THEN None
        ELSE Some(Unwrap(typed).base.entry.start_old + Unwrap(typed).base.byte_offset))

PointerIndex_canonical_ptr(idx, d, ptr) ==
    Let(PointerIndex_resolve_typed(idx, d, ptr), LAMBDA typed :
        IF IsNone(typed) THEN None
        ELSE IF IsNone(Unwrap(typed).element_index) THEN None
        ELSE Some(Unwrap(typed).base.entry.start_old
                  + Unwrap(Unwrap(typed).element_index) * Unwrap(typed).struct_size))

\* IdIndex::get_by_ptr: by_ptr keeps the first record of each old_ptr
IdIndex_get_by_ptr(records, ptr) ==
    IF \E i \in 1..Len(records) : records[i].old_ptr = ptr
    THEN Some(records[CHOOSE i \in 1..Len(records) :
                        /\ records[i].old_ptr = ptr
                        /\ \A j \in 1..(i - 1) : records[j].old_ptr # ptr])
    ELSE None

----------------------------------------------------------------------------
(* Reference scanner (refs.rs).                                             *)

Error(kind, ptr) == [kind |-> kind, ptr |-> ptr]

\* RefScanner::resolve_target
resolve_target(d, idx, records, ptr) ==
    IF ptr = 0 THEN None
    ELSE Let(PointerIndex_resolve_typed(idx, d, ptr), LAMBDA typed :
             IF IsNone(typed) THEN None
             ELSE IF IsNone(Unwrap(typed).element_index) THEN None
             ELSE LET t == Unwrap(typed)
                      canonical == t.base.entry.start_old
                                   + Unwrap(t.element_index) * t.struct_size
                      item == Dna_struct_by_sdna(d, t.base.entry.block.head.sdna_nr)
                      id == IdIndex_get_by_ptr(records, canonical)
                  IN  Some([canonical |-> canonical,
                            code |-> t.base.entry.block.head.code,
                            sdna_nr |-> t.base.entry.block.head.sdna_nr,
                            type_name |-> IF IsSome(item)
                                          THEN Dna_type_name(d, Unwrap(item).type_idx)
                                          ELSE "<unknown>",
                            id_name |-> IF IsSome(id) THEN Some(Unwrap(id).id_name)
                                        ELSE None]))

\* a scanner that reads a pointer field as one pointer, whatever its count
PointerFieldRecords_first(ctx, decl, bytes, pos, prefix) ==
    << [owner_canonical |-> ctx.owner_canonical,
        owner_type |-> ctx.owner_type,
        field |-> prefix \o decl.ident,
        ptr |-> Cursor_read_u64_le(bytes, pos),
        resolved |-> resolve_target(ctx.dna, ctx.index, ctx.ids,
                                    Cursor_read_u64_le(bytes, pos))] >>

\* the records of one pointer field: one per inline-array element
PointerFieldRecords(ctx, decl, bytes, pos, prefix) ==
    [i \in 1..decl.inline_array |->
        Let(Cursor_read_u64_le(bytes, pos + 8 * (i - 1)), LAMBDA ptr :
            [owner_canonical |-> ctx.owner_canonical,
             owner_type |-> ctx.owner_type,
             field |-> IF decl.inline_array = 1
                       THEN prefix \o decl.ident
                       ELSE prefix \o decl.ident \o "[" \o ToString(i - 1) \o "]",
             ptr |-> ptr,
             resolved |-> resolve_target(ctx.dna, ctx.index, ctx.ids, ptr)])]

RECURSIVE scan_fields(_, _, _, _, _, _, _, _)

\* the nested call of scan_struct on the struct sdna_nr
scan_nested(ctx, sdna_nr, bytes, prefix, depth_left) ==
    Let(Dna_struct_by_sdna(ctx.dna, sdna_nr), LAMBDA item :
        IF IsNone(item)
        THEN [err |-> Some(Error("DecodeMissingSdna", sdna_nr)), out |-> << >>]
        ELSE scan_fields(ctx, Unwrap(item).fields, bytes, prefix, depth_left, 1, 0, << >>))

\* one pass of the for-loop of RefScanner::scan_struct, on the field fi whose
\* declarator parsed to decl
scan_field(ctx, fields, bytes, prefix, depth_left, fi, pos, acc, decl) ==
    LET field == fields[fi]
        type_name == Dna_type_name(ctx.dna, field.type_idx)
        count == decl.inline_array
        tlen == ctx.dna.tlen[field.type_idx + 1]
        element_size == IF type_name = "void" THEN 1
                        ELSE IF tlen = 0 THEN 1 ELSE tlen
        nested_sdna == Dna_struct_for_type(ctx.dna, field.type_idx)
    IN  IF count > ctx.options.max_array_elems
        THEN [err |-> Some(Error("DecodeArrayTooLarge", count)), out |-> << >>]
        ELSE IF count = 0
        THEN scan_fields(ctx, fields, bytes, prefix, depth_left, fi + 1, pos, acc)
        ELSE IF decl.ptr_depth > 0 \/ decl.is_func_ptr
        THEN IF ~Cursor_can_read(bytes, pos, 8 * count)
             THEN [err |-> Some(Error("UnexpectedEof", pos)), out |-> << >>]
             ELSE Let(acc \o PointerFieldRecords(ctx, decl, bytes, pos, prefix),
                      LAMBDA found :
                         scan_fields(ctx, fields, bytes, prefix, depth_left, fi + 1,
                                     pos + 8 * count, found))
        ELSE IF IsSome(nested_sdna) /\ depth_left > 0 /\ count = 1
        THEN IF ~Cursor_can_read(bytes, pos, element_size)
             THEN [err |-> Some(Error("UnexpectedEof", pos)), out |-> << >>]
             ELSE Let(scan_nested(ctx, Unwrap(nested_sdna),
                                  Slice(bytes, pos, element_size),
                                  prefix \o decl.ident \o ".", depth_left - 1),
                      LAMBDA nested :
                         IF IsSome(nested.err) THEN nested
                         ELSE Let(acc \o nested.out, LAMBDA found :
                                  scan_fields(ctx, fields, bytes, prefix, depth_left,
                                              fi + 1, pos + element_size, found)))
        ELSE IF ~Cursor_can_read(bytes, pos, element_size * count)
             THEN [err |-> Some(Error("UnexpectedEof", pos)), out |-> << >>]
             ELSE scan_fields(ctx, fields, bytes, prefix, depth_left, fi + 1,
                              pos + element_size * count, acc)

\* the for-loop of RefScanner::scan_struct from field fi on, cursor at pos
scan_fields(ctx, fields, bytes, prefix, depth_left, fi, pos, acc) ==
    IF fi > Len(fields) THEN [err |-> None, out |-> acc]
    ELSE Let(<< parse_field_decl(Dna_field_name(ctx.dna, fields[fi].name_idx)), fi, pos >>,
             LAMBDA at :
                scan_field(ctx, fields, bytes, prefix, depth_left, at[2], at[3], acc, at[1]))

\* RefScanner::scan_struct, called on the owner struct
scan_struct(ctx, sdna_nr, bytes, prefix, depth_left) ==
    scan_nested(ctx, sdna_nr, bytes, prefix, depth_left)

\* the scanner's Result<Vec<RefRecord>>
scan_result(scanned) ==
    IF IsSome(scanned.err) THEN Err(Unwrap(scanned.err)) ELSE Ok(scanned.out)

\* the scan of the owner bytes under the scanner ctx
scan_owner(ctx, sdna_nr, bytes, options) ==
    scan_result(scan_struct(ctx, sdna_nr, bytes, "", options.max_depth))

\* scan_refs_from_ptr once root_ptr has resolved to the typed entry t
scan_refs_from_typed(d, idx, records, t, owner_struct, owner_offset, options) ==
    IF IsNone(owner_struct)
    THEN Err(Error("DecodeMissingSdna", t.base.entry.block.head.sdna_nr))
    ELSE IF owner_offset + t.struct_size > Len(t.base.entry.block.payload)
    THEN Err(Error("ChaseSliceOob", owner_offset))
    ELSE Let(<< [dna |-> d, index |-> idx, ids |-> records, options |-> options,
                 owner_canonical |-> t.base.entry.start_old + owner_offset,
                 owner_type |-> Dna_type_name(d, Unwrap(owner_struct).type_idx)],
                Slice(t.base.entry.block.payload, owner_offset, t.struct_size) >>,
             LAMBDA scanner :
                scan_owner(scanner[1], t.base.entry.block.head.sdna_nr, scanner[2],
                           options))

\* scan_refs_from_ptr once root_ptr is known to be non-null
scan_refs_from_resolved(d, idx, records, root_ptr, typed, options) ==
    IF IsNone(typed) THEN Err(Error("ChaseUnresolvedPtr", root_ptr))
    ELSE IF IsNone(Unwrap(typed).element_index)
    THEN Err(Error("ChasePtrOutOfBounds", root_ptr))
    ELSE scan_refs_from_typed(d, idx, records, Unwrap(typed),
                              Dna_struct_by_sdna(d, Unwrap(typed).base.entry.block.head.sdna_nr),
                              Unwrap(Unwrap(typed).element_index) * Unwrap(typed).struct_size,
                              options)

scan_refs_from_ptr(d, idx, records, root_ptr, options) ==
    IF root_ptr = 0 THEN Err(Error("ChaseNullPtr", 0))
    ELSE Let(PointerIndex_resolve_typed(idx, d, root_ptr), LAMBDA typed :
             scan_refs_from_resolved(d, idx, records, root_ptr, typed, options))

----------------------------------------------------------------------------
(* Worlds: the files the calls are made on.                                 *)

MkBlock(code, sdna_nr, old, nr, payload) ==
    [head |-> [code |-> code, sdna_nr |-> sdna_nr, old |-> old,
               len |-> Len(payload), nr |-> nr],
     payload |-> payload]

\* the call-local variables before any call has started
IdleLocals ==
    /\ current = None
    /\ step_index = 0
    /\ hops = << >>
    /\ visited = {}
    /\ items = << >>
    /\ queue = << >>
    /\ nodes_by_ptr = {}
    /\ edges = << >>
    /\ parents = {}
    /\ visited_edges = 0
    /\ truncated = None
    /\ hit_depth_limit = FALSE
    /\ out = << >>
    /\ iter = None

----------------------------------------------------------------------------
(* SpecIndex: pointer resolution on two-block files whose ranges may be     *)
(* disjoint, adjacent, nested or overlapping, in both storage regimes.      *)

IndexBlocks ==
    { << MkBlock("DATA", s1, o1, n1, Zeros(l1)), MkBlock("TEST", 1, o2, n2, Zeros(l2)) >> :
        s1 \in {1, 2, 9}, o1 \in {0, 4, 8, 12}, n1 \in {1, 2}, l1 \in {0, 4, 8, 10},
        o2 \in {4, 8, 12}, n2 \in {1, 2}, l2 \in {4, 8} }

InitIndex ==
    /\ dna = NodeDna
    /\ blocks \in IndexBlocks
    /\ \E storage \in {"AddressRanges", "StableIds"} :
          index = PointerIndex_build(blocks, storage)
    /\ ids = << >>
    /\ op = [name |-> "resolve", ptr |-> 0]
    /\ pc = "start"
    /\ result = None
    /\ IdleLocals

\* one query of the index: resolve, resolve_typed, canonical_ptr and the
\* scanner's resolve_target on the same pointer
Resolve ==
    /\ op.name = "resolve"
    /\ pc = "start"
    /\ \E ptr \in 0..MaxAddr :
          /\ op' = [op EXCEPT !.ptr = ptr]
          /\ result' = [resolve |-> PointerIndex_resolve(index, ptr),
                        resolve_typed |-> PointerIndex_resolve_typed(index, dna, ptr),
                        canonical_ptr |-> PointerIndex_canonical_ptr(index, dna, ptr),
                        resolve_target |-> resolve_target(dna, index, ids, ptr)]
    /\ pc' = "done"
    /\ UNCHANGED <<world, locals>>

NextIndex == Resolve

SpecIndex == InitIndex /\ [][NextIndex]_vars

----------------------------------------------------------------------------
(* Properties of the pointer index.                                         *)

IndexPositions == 1..Len(index.entries)

Contains(e, ptr) == e.start_old <= ptr /\ ptr < e.end_old

\* entry i is the last one, in index order, that starts at or below ptr
LastStartAtOrBelow(i, ptr) ==
    /\ index.entries[i].start_old <= ptr
    /\ \A j \in IndexPositions : j > i => index.entries[j].start_old > ptr

RangesDisjoint ==
    \A i, j \in IndexPositions :
        i # j => \/ index.entries[i].end_old <= index.entries[j].start_old
                 \/ index.entries[j].end_old <= index.entries[i].start_old

\* tlen of the struct an entry's block holds, 0 when the DNA has no such struct
StructSizeOf(e) ==
    LET item == Dna_struct_by_sdna(dna, e.block.head.sdna_nr)
    IN  IF IsSome(item) THEN dna.tlen[Unwrap(item).type_idx + 1] ELSE 0

InElement(e, k, ptr) ==
    /\ e.start_old + k * StructSizeOf(e) <= ptr
    /\ ptr < e.start_old + (k + 1) * StructSizeOf(e)

Queried == op.name = "resolve" /\ pc = "done"

\* C4 as stated: every pointer into element k < nr of an indexed block with
\* struct size S > 0 canonicalizes to start_old + k*S and resolves to that
\* block's entry with element_index = Some(k).
C4_AnyPointerIntoElement ==
    Queried =>
        \A i \in IndexPositions :
            LET e == index.entries[i]
            IN  \A k \in 0..(e.block.head.nr - 1) :
                    (StructSizeOf(e) > 0 /\ InElement(e, k, op.ptr)) =>
                        /\ result.canonical_ptr = Some(e.start_old + k * StructSizeOf(e))
                        /\ IsSome(result.resolve_typed)
                        /\ Unwrap(result.resolve_typed).base.entry = e
                        /\ Unwrap(result.resolve_typed).element_index = Some(k)

\* C4 amended: in AddressRanges storage, a pointer into element k < nr of an
\* indexed block with struct size S > 0 that lies inside the block's payload
\* range and is not shadowed by an entry starting later canonicalizes to
\* start_old + k*S and resolves to that entry with element_index = Some(k) and
\* element_offset = ptr - (start_old + k*S); every other such pointer into the
\* same element has the same canonical pointer.
C4_PointerCanonicality ==
    (Queried /\ index.storage = "AddressRanges") =>
        \A i \in IndexPositions :
            LET e == index.entries[i]
                size == StructSizeOf(e)
            IN  \A k \in 0..(e.block.head.nr - 1) :
                    (size > 0 /\ InElement(e, k, op.ptr) /\ op.ptr < e.end_old
                     /\ LastStartAtOrBelow(i, op.ptr)) =>
                        /\ result.canonical_ptr = Some(e.start_old + k * size)
                        /\ IsSome(result.resolve_typed)
                        /\ Unwrap(result.resolve_typed).base.entry = e
                        /\ Unwrap(result.resolve_typed).element_index = Some(k)
                        /\ Unwrap(result.resolve_typed).element_offset
                               = op.ptr - (e.start_old + k * size)
                        /\ \A p2 \in 0..MaxAddr :
                              (InElement(e, k, p2) /\ p2 < e.end_old
                               /\ LastStartAtOrBelow(i, p2)) =>
                                  PointerIndex_canonical_ptr(index, dna, p2)
                                      = result.canonical_ptr

\* an interior pointer into element 1 of a two-element block was resolved
C4_Witness ==
    /\ Queried /\ index.storage = "AddressRanges"
    /\ \E i \in IndexPositions :
          LET e == index.entries[i]
          IN  /\ StructSizeOf(e) > 0 /\ e.block.head.nr >= 2
              /\ op.ptr = e.start_old + StructSizeOf(e) + 1
              /\ op.ptr < e.end_old /\ LastStartAtOrBelow(i, op.ptr)
              /\ result.canonical_ptr = Some(e.start_old + StructSizeOf(e))

\* C5 as stated: whatever the placement of the entries, every entry that
\* contains a non-zero pointer is what resolve returns for it, with
\* byte_offset = ptr - start_old, and resolve returns None only if no entry
\* contains the pointer.
C5_ResolveAnyPlacement ==
    (Queried /\ index.storage = "AddressRanges" /\ op.ptr # 0) =>
        /\ \A i \in IndexPositions :
              Contains(index.entries[i], op.ptr) =>
                  result.resolve = Some([entry |-> index.entries[i],
                                         byte_offset |-> op.ptr - index.entries[i].start_old])
        /\ IsNone(result.resolve) =>
              \A i \in IndexPositions : ~Contains(index.entries[i], op.ptr)

\* C5 amended: for a non-zero pointer, resolve looks only at the last entry (in
\* index order) whose start_old <= ptr: it returns that entry with byte_offset =
\* ptr - start_old when ptr < its end_old and None otherwise; so when the
\* indexed ranges are pairwise disjoint, an entry that contains the pointer is
\* what resolve returns, and None means that no entry contains it.
C5_ResolveGreatestStart ==
    (Queried /\ index.storage = "AddressRanges" /\ op.ptr # 0) =>
        /\ \A i \in IndexPositions :
              LastStartAtOrBelow(i, op.ptr) =>
                  result.resolve =
                      IF op.ptr < index.entries[i].end_old
                      THEN Some([entry |-> index.entries[i],
                                 byte_offset |-> op.ptr - index.entries[i].start_old])
                      ELSE None
        /\ (\A i \in IndexPositions : index.entries[i].start_old > op.ptr) =>
              IsNone(result.resolve)
        /\ RangesDisjoint =>
              /\ \A i \in IndexPositions :
                    Contains(index.entries[i], op.ptr) =>
                        result.resolve = Some([entry |-> index.entries[i],
                                               byte_offset |-> op.ptr - index.entries[i].start_old])
              /\ IsNone(result.resolve) =>
                    \A i \in IndexPositions : ~Contains(index.entries[i], op.ptr)

\* with two disjoint ranges, a pointer inside the second one was resolved
C5_Witness ==
    /\ Queried /\ index.storage = "AddressRanges"
    /\ Len(index.entries) = 2 /\ RangesDisjoint
    /\ Contains(index.entries[2], op.ptr)
    /\ IsSome(result.resolve)
    /\ Unwrap(result.resolve).byte_offset > 0

\* C6: in StableIds storage a pointer resolves only if it equals some entry's
\* start_old, and then to that entry with byte_offset 0; a value inside a
\* block's payload extent that is no entry's start_old (start_old + 1 of a
\* payload longer than one byte) resolves to None; and a resolved reference
\* target has canonical equal to the raw pointer.
C6_StableIdsExactMatch ==
    (Queried /\ index.storage = "StableIds") =>
        /\ IsSome(result.resolve) =>
              /\ \E i \in IndexPositions : index.entries[i].start_old = op.ptr
              /\ Unwrap(result.resolve).entry.start_old = op.ptr
              /\ Unwrap(result.resolve).byte_offset = 0
        /\ \A i \in IndexPositions :
              LET e == index.entries[i]
              IN  (/\ e.start_old < op.ptr
                   /\ op.ptr < e.start_old + Len(e.block.payload)
                   /\ \A j \in IndexPositions : index.entries[j].start_old # op.ptr)
                  => IsNone(result.resolve)
        /\ \A i \in IndexPositions :
              index.entries[i].start_old = op.ptr => IsSome(result.resolve)
        /\ IsSome(result.resolve_target) =>
              Unwrap(result.resolve_target).canonical = op.ptr

\* start_old + 1 of a payload longer than one byte was queried and not resolved
C6_Witness ==
    /\ Queried /\ index.storage = "StableIds"
    /\ \E i \in IndexPositions :
          /\ Len(index.entries[i].block.payload) > 1
          /\ op.ptr = index.entries[i].start_old + 1
    /\ IsNone(result.resolve)

----------------------------------------------------------------------------
(* The traversal world: a Node block A with one element, a Node block B     *)
(* with two elements and 8 trailing bytes, and a Tiny block C. The unit     *)
(* tests place their blocks at 0x1000, 0x2000 and 0x3000.                   *)

AddrA == 4096
AddrB == 8192
AddrC == 12288

\* the size of struct Node in NodeDna
NodeSize == NodeDna.tlen[1]

\* address of element 1 of block B
AddrB1 == AddrB + NodeSize

\* a pointer into no block
AddrUnmapped == AddrC + AddrA

\* a pointer into the bytes of block B that follow its last element
AddrTail == AddrB + 2 * NodeSize + 4

\* the payload of one Node element
NodeBytes(next, other) == LeBytes8(next) \o LeBytes8(other) \o Zeros(8)

\* slot is a function from the three Node instances to their next and other
\* pointers
TraversalBlocks(slot) ==
    << MkBlock("DATA", 0, AddrA, 1, NodeBytes(slot.a.next, slot.a.other)),
       MkBlock("DATA", 0, AddrB, 2,
               NodeBytes(slot.b0.next, slot.b0.other)
               \o NodeBytes(slot.b1.next, slot.b1.other) \o Zeros(8)),
       MkBlock("TEST", 1, AddrC, 1, Zeros(4)) >>

\* the values a pointer slot takes: null, element starts, interior pointers,
\* the tail of B, the Tiny block, and an unmapped address
NextPtrs == {0, AddrA, AddrA + 4, AddrB, AddrB1, AddrB1 + 8, AddrTail, AddrC, AddrUnmapped}

Slot(n, o) == [next |-> n, other |-> o]

IdRecord(old_ptr, id_name) ==
    [old_ptr |-> old_ptr, code |-> "DATA", sdna_nr |-> 0, type_name |-> "Node",
     id_name |-> id_name]

StopModes == {"Stop", "Error"}

RefScanOptions_default == [max_depth |-> 1, max_array_elems |-> 4096]

\* the canonical pointers of the struct instances of the file
Instances == {AddrA, AddrB, AddrB1, AddrC}

----------------------------------------------------------------------------
(* walk_ptr_chain (walk.rs), one action per loop iteration.                 *)

\* a stop that reports the step after the last visited item
WalkStop_next_step(step, kind, ptr) ==
    [step |-> step + 1, reason |-> [kind |-> kind, ptr |-> ptr]]

WalkStop(step, kind, ptr) == [step |-> step, reason |-> [kind |-> kind, ptr |-> ptr]]

WalkResult(its, stop) == Ok([items |-> its, stop |-> stop])

\* match options.on_<mode> { Stop => Ok(WalkResult {..}), Error => Err(..) }
WalkStopOrError(mode, its, step, kind, ptr, err) ==
    IF mode = "Stop" THEN WalkResult(its, Some(WalkStop(step, kind, ptr)))
    ELSE Err(err)

\* a loop that runs one iteration more
Walk_step_in_range_inclusive(step, max_steps) == step <= max_steps

\* the loop condition of  for step in 0..options.max_steps
Walk_step_in_range(step, max_steps) == step < max_steps

\* refs.iter().find(|item| item.field == next_field)
Walk_find_next_ref(refs, next_field) ==
    IF \E i \in 1..Len(refs) : refs[i].field = next_field
    THEN Some(refs[CHOOSE i \in 1..Len(refs) :
                     /\ refs[i].field = next_field
                     /\ \A j \in 1..(i - 1) : refs[j].field # next_field])
    ELSE None

\* a walk that never sees a revisit
Walk_visited_contains_never(vis, canonical) == FALSE

\* visited.contains(&target.canonical)
Walk_visited_contains(vis, canonical) == canonical \in vis

WalkItem(d, records, step, cur, typed) ==
    LET head == typed.base.entry.block.head
        item == Dna_struct_by_sdna(d, head.sdna_nr)
        id == IdIndex_get_by_ptr(records, cur)
    IN  [index |-> step, canonical |-> cur, code |-> head.code, sdna_nr |-> head.sdna_nr,
         type_name |-> IF IsSome(item) THEN Dna_type_name(d, Unwrap(item).type_idx)
                       ELSE "<unknown>",
         id_name |-> IF IsSome(id) THEN Some(Unwrap(id).id_name) ELSE None]

\* the part of walk_ptr_chain before its loop: Some(result) when it returns,
\* None when it enters the loop with current
Walk_prologue(d, idx, start_ptr, options) ==
    IF start_ptr = 0
    THEN [ret |-> Some(WalkStopOrError(options.on_null, << >>, 0, "NullNext", 0,
                                       Error("ChaseNullPtr", 0))),
          current |-> None]
    ELSE Let(PointerIndex_canonical_ptr(idx, d, start_ptr), LAMBDA c :
             IF IsNone(c)
             THEN [ret |-> Some(WalkStopOrError(options.on_unresolved, << >>, 0,
                                                "UnresolvedNext", start_ptr,
                                                Error("ChaseUnresolvedPtr", start_ptr))),
                   current |-> None]
             ELSE [ret |-> None, current |-> c])

\* what one iteration of the loop hands back: ret is Some(result) when the
\* iteration returns, and None when the loop goes on with next
WalkReturn(its, vis, ret) == [ret |-> Some(ret), items |-> its, visited |-> vis, next |-> 0]

WalkContinue(its, vis, next) == [ret |-> None, items |-> its, visited |-> vis, next |-> next]

\* the iteration from the null check of next_ref on
Walk_follow(options, step, its, vis, next_ref) ==
    IF next_ref.ptr = 0
    THEN WalkReturn(its, vis, WalkStopOrError(options.on_null, its, step, "NullNext", 0,
                                              Error("ChaseNullPtr", 0)))
    ELSE IF IsNone(next_ref.resolved)
    THEN WalkReturn(its, vis, WalkStopOrError(options.on_unresolved, its, step,
                                              "UnresolvedNext", next_ref.ptr,
                                              Error("ChaseUnresolvedPtr", next_ref.ptr)))
    ELSE IF Walk_visited_contains(vis, Unwrap(next_ref.resolved).canonical)
    THEN WalkReturn(its, vis, WalkStopOrError(options.on_cycle, its, step, "Cycle",
                                              Unwrap(next_ref.resolved).canonical,
                                              Error("ChaseCycle",
                                                    Unwrap(next_ref.resolved).canonical)))
    ELSE WalkContinue(its, vis, Unwrap(next_ref.resolved).canonical)

\* the iteration from the result of scan_refs_from_ptr on
Walk_scanned(options, step, its, vis, refs) ==
    IF ~refs.ok THEN WalkReturn(its, vis, Err(refs.e))
    ELSE Let(Walk_find_next_ref(refs.v, options.next_field), LAMBDA next_ref :
             IF IsNone(next_ref)
             THEN WalkReturn(its, vis, WalkStopOrError(options.on_unresolved, its, step,
                                                       "MissingNextField", 0,
                                                       Error("WalkMissingNextField", 0)))
             ELSE Walk_follow(options, step, its, vis, Unwrap(next_ref)))

\* one iteration of the loop body at step, on current cur
Walk_iteration(d, idx, records, options, step, cur, its, vis) ==
    Let(PointerIndex_resolve_typed(idx, d, cur), LAMBDA typed :
        IF IsNone(typed)
        THEN WalkReturn(its, vis, Err(Error("ChaseUnresolvedPtr", cur)))
        ELSE IF IsNone(Unwrap(typed).element_index)
        THEN WalkReturn(its, vis, Err(Error("ChasePtrOutOfBounds", cur)))
        ELSE Let(<< Append(its, WalkItem(d, records, step, cur, Unwrap(typed))),
                    vis \cup {cur},
                    scan_refs_from_ptr(d, idx, records, cur, options.ref_scan) >>,
                 LAMBDA now : Walk_scanned(options, step, now[1], now[2], now[3])))

\* the variables no walk touches
WalkUnused == <<hops, queue, nodes_by_ptr, edges, parents, visited_edges, truncated,
                hit_depth_limit, out>>

\* walk_ptr_chain up to its loop
WalkStart ==
    /\ op.name = "walk"
    /\ pc = "start"
    /\ \E p \in {Walk_prologue(dna, index, op.start_ptr, op.options)} :
           IF IsSome(p.ret)
           THEN /\ result' = Unwrap(p.ret)
                /\ pc' = "done"
                /\ UNCHANGED current
           ELSE /\ current' = p.current
                /\ pc' = "loop"
                /\ UNCHANGED result
    /\ UNCHANGED <<world, op, step_index, items, visited, WalkUnused>>

\* the assignments of one iteration that handed back r
WalkStepApply(r) ==
    /\ items' = r.items
    /\ visited' = r.visited
    /\ IF IsSome(r.ret)
       THEN /\ result' = Unwrap(r.ret)
            /\ pc' = "done"
            /\ UNCHANGED <<current, step_index>>
       ELSE /\ current' = Some(r.next)
            /\ step_index' = step_index + 1
            /\ UNCHANGED <<result, pc>>

\* one iteration of the loop
WalkStep ==
    /\ op.name = "walk"
    /\ pc = "loop"
    /\ Walk_step_in_range(step_index, op.options.max_steps)
    /\ \E r \in {Walk_iteration(dna, index, ids, op.options, step_index,
                                  Unwrap(current), items, visited)} : WalkStepApply(r)
    /\ UNCHANGED <<world, op, WalkUnused>>

\* the loop ran max_steps times: Ok(WalkResult { items, stop: None })
WalkExhausted ==
    /\ op.name = "walk"
    /\ pc = "loop"
    /\ ~Walk_step_in_range(step_index, op.options.max_steps)
    /\ result' = WalkResult(items, None)
    /\ pc' = "done"
    /\ UNCHANGED <<world, op, current, step_index, items, visited, WalkUnused>>

\* files for the walk: the other pointers stay null
WalkWorlds ==
    { TraversalBlocks([a |-> Slot(na, 0), b0 |-> Slot(nb0, 0), b1 |-> Slot(nb1, 0)]) :
        na \in NextPtrs \ {AddrA + 4}, nb0 \in NextPtrs \ {AddrB1 + 8},
        nb1 \in NextPtrs \ {AddrTail} }

WalkOptions ==
    [next_field : {"next"}, max_steps : 0..MaxLimit, ref_scan : {RefScanOptions_default},
     on_null : StopModes, on_unresolved : StopModes, on_cycle : StopModes]

InitWalk ==
    /\ dna = NodeDna
    /\ blocks \in WalkWorlds
    /\ index = PointerIndex_build(blocks, "AddressRanges")
    /\ ids = << IdRecord(AddrA, "SCScene") >>
    /\ \E start_ptr \in {0, AddrA, AddrB + 4, AddrC, AddrUnmapped}, options \in WalkOptions :
          op = [name |-> "walk", start_ptr |-> start_ptr, options |-> options]
    /\ pc = "start"
    /\ result = None
    /\ IdleLocals

NextWalk == WalkStart \/ WalkStep \/ WalkExhausted

SpecWalk == InitWalk /\ [][NextWalk]_vars

----------------------------------------------------------------------------
(* Properties of walk_ptr_chain.                                            *)

WalkDone == op.name = "walk" /\ pc = "done"

\* the stop a walk reports: its step and its reason
StoppedAt(step, kind, ptr) == [step |-> step, reason |-> [kind |-> kind, ptr |-> ptr]]

\* the next pointer stored in the Node instance at canonical pointer c
RawNext(c) ==
    LET r == Unwrap(PointerIndex_resolve(index, c))
    IN  Cursor_read_u64_le(r.entry.block.payload, r.byte_offset)

\* the instance at canonical pointer c is a Node, the struct with a next field
IsNode(c) ==
    /\ IsSome(PointerIndex_resolve(index, c))
    /\ Unwrap(PointerIndex_resolve(index, c)).entry.block.head.sdna_nr = 0

SeqRange(s) == {s[i] : i \in 1..Len(s)}

\* the chain of distinct Node instances from c on that ends with a null next
\* pointer, or None when following next from c meets anything else
RECURSIVE NullTerminatedChain(_, _)
NullTerminatedChain(c, acc) ==
    IF c \in SeqRange(acc) \/ ~IsNode(c) THEN None
    ELSE IF RawNext(c) = 0 THEN Some(Append(acc, c))
    ELSE LET t == PointerIndex_canonical_ptr(index, dna, RawNext(c))
         IN  IF IsNone(t) THEN None ELSE NullTerminatedChain(Unwrap(t), Append(acc, c))

StartChain ==
    LET c == PointerIndex_canonical_ptr(index, dna, op.start_ptr)
    IN  IF IsNone(c) THEN None ELSE NullTerminatedChain(Unwrap(c), << >>)

\* C7: for a chain of n distinct resolvable instances linked through next whose
\* last next pointer is 0, with n <= max_steps and on_null = Stop, the walk
\* returns exactly the n instances in chain order with items[i].index = i and
\* stop = Some(NullNext) at step n - 1.
C7_WalkNullTerminatedChain ==
    (/\ WalkDone
     /\ op.options.on_null = "Stop"
     /\ IsSome(StartChain)
     /\ Len(Unwrap(StartChain)) <= op.options.max_steps)
    => LET chain == Unwrap(StartChain)
       IN  /\ result.ok
           /\ Len(result.v.items) = Len(chain)
           /\ \A i \in 1..Len(chain) :
                 /\ result.v.items[i].canonical = chain[i]
                 /\ result.v.items[i].index = i - 1
           /\ result.v.stop = Some(StoppedAt(Len(chain) - 1, "NullNext", 0))

\* a chain of three instances was walked to its null end
C7_Witness ==
    /\ WalkDone
    /\ op.options.on_null = "Stop"
    /\ IsSome(StartChain)
    /\ Len(Unwrap(StartChain)) = 3
    /\ result.ok
    /\ Len(result.v.items) = 3
    /\ result.v.stop = Some(StoppedAt(2, "NullNext", 0))

\* the iteration on the Node instance c meets no stop condition, given the
\* canonical pointers seen up to and including c
NoStopCondition(c, seen) ==
    /\ IsNode(c)
    /\ RawNext(c) # 0
    /\ IsSome(PointerIndex_canonical_ptr(index, dna, RawNext(c)))
    /\ Unwrap(PointerIndex_canonical_ptr(index, dna, RawNext(c))) \notin seen

\* C8: a walk never returns more than max_steps items; it returns stop = None
\* only when exactly max_steps items were visited and none of them met a null,
\* unresolved, cycle or missing-next-field condition; and a returned stop
\* carries the index of the last visited item (0 when there are no items,
\* which happens only when the start pointer is null or unresolved).
C8_WalkStepBudget ==
    (WalkDone /\ result.ok)
    => LET its == result.v.items
           stop == result.v.stop
       IN  /\ Len(its) <= op.options.max_steps
           /\ IsNone(stop) =>
                 /\ Len(its) = op.options.max_steps
                 /\ IsSome(PointerIndex_canonical_ptr(index, dna, op.start_ptr))
                 /\ \A i \in 1..Len(its) :
                       NoStopCondition(its[i].canonical,
                                       {its[j].canonical : j \in 1..i})
           /\ IsSome(stop) =>
                 /\ Unwrap(stop).step = (IF its = << >> THEN 0 ELSE Len(its) - 1)
                 /\ Unwrap(stop).step = (IF its = << >> THEN 0 ELSE its[Len(its)].index)
                 /\ its = << >> =>
                       /\ op.options.max_steps >= 0
                       /\ \/ op.start_ptr = 0 /\ Unwrap(stop).reason.kind = "NullNext"
                          \/ /\ IsNone(PointerIndex_canonical_ptr(index, dna, op.start_ptr))
                             /\ Unwrap(stop).reason = [kind |-> "UnresolvedNext",
                                                       ptr |-> op.start_ptr]
                 /\ (its # << >> /\ Unwrap(stop).reason.kind # "MissingNextField") =>
                       ~NoStopCondition(its[Len(its)].canonical,
                                        {its[j].canonical : j \in 1..Len(its)})

\* a walk used up a budget of at least two steps on a longer chain
C8_Witness ==
    /\ WalkDone /\ result.ok
    /\ op.options.max_steps >= 2
    /\ IsNone(result.v.stop)
    /\ Len(result.v.items) = op.options.max_steps

\* C9: the items of a walk have pairwise distinct canonical pointers; when the
\* next reference of the last visited instance resolves to an instance already
\* visited (the instance itself included) the walk ends there with stop reason
\* Cycle(target canonical) under on_cycle = Stop and with a ChaseCycle error
\* under on_cycle = Error, the revisited instance not being appended again.
C9_WalkCycle ==
    /\ op.name = "walk" =>
          \A i, j \in 1..Len(items) : items[i].canonical = items[j].canonical => i = j
    /\ (WalkDone /\ result.ok) => result.v.items = items
    /\ (/\ WalkDone
        /\ items # << >>
        /\ IsNode(items[Len(items)].canonical)
        /\ RawNext(items[Len(items)].canonical) # 0
        /\ IsSome(PointerIndex_canonical_ptr(index, dna, RawNext(items[Len(items)].canonical)))
        /\ Unwrap(PointerIndex_canonical_ptr(index, dna, RawNext(items[Len(items)].canonical)))
              \in {items[k].canonical : k \in 1..Len(items)})
       => LET target == Unwrap(PointerIndex_canonical_ptr(
                                   index, dna, RawNext(items[Len(items)].canonical)))
          IN  IF op.options.on_cycle = "Stop"
              THEN result = [ok |-> TRUE,
                             v |-> [items |-> items,
                                    stop |-> Some(StoppedAt(Len(items) - 1, "Cycle", target))]]
              ELSE result = [ok |-> FALSE, e |-> [kind |-> "ChaseCycle", ptr |-> target]]

\* a walk over two instances came back to the first one through an interior
\* pointer and stopped with Cycle
C9_Witness ==
    /\ WalkDone /\ result.ok
    /\ Len(items) = 2
    /\ IsNode(items[2].canonical)
    /\ RawNext(items[2].canonical) # items[1].canonical
    /\ result.v.stop = Some(StoppedAt(1, "Cycle", items[1].canonical))

----------------------------------------------------------------------------
(* Values and the struct decoder (value.rs, decode.rs).                     *)

V_Null == [k |-> "Null"]
V_I64(n) == [k |-> "I64", n |-> n]
V_U64(n) == [k |-> "U64", n |-> n]
V_Bytes(raw) == [k |-> "Bytes", raw |-> raw]
V_Ptr(p) == [k |-> "Ptr", ptr |-> p]
V_Array(vals) == [k |-> "Array", items |-> vals]
V_Struct(item) == [k |-> "Struct", item |-> item]
\* a string is the sequence of its bytes; from_utf8_lossy keeps ASCII bytes
V_String(chars) == [k |-> "String", chars |-> chars]

StructValue(type_name, fields) == [type_name |-> type_name, fields |-> fields]
FieldValue(name, value) == [name |-> name, value |-> value]

\* value_kind
value_kind(value) == value.k

DecodeOptions_default ==
    [max_depth |-> 16, max_array_elems |-> 4096, include_padding |-> FALSE,
     decode_char_arrays_as_string |-> TRUE, strict_layout |-> FALSE]

\* if count == 1 { values.pop() } else { Value::Array(values) }
OneOrArray(vals) ==
    Let(vals, LAMBDA values : IF Len(values) = 1 THEN values[1] ELSE V_Array(values))

\* is_unsigned_type, on the type names of the schema
is_unsigned_type(type_name) == type_name \in {"uint", "uchar", "ushort", "uint8_t", "uint64_t"}

\* is_padding_field, on the identifiers of the schema
is_padding_field(ident, type_name, inline_array) ==
    /\ ident \in {"_pad", "pad", "_pad0", "pad0", "_pad1", "pad1"}
    /\ inline_array > 0
    /\ type_name \in {"char", "uchar", "uint8_t"}

\* decode_primitive for the integer types of the schema: 1, 2 and 4 byte
\* little-endian integers, sign-extended unless the type is unsigned
decode_primitive(type_name, raw) ==
    IF Len(raw) \notin {1, 2, 4} THEN V_Bytes(raw)
    ELSE IF is_unsigned_type(type_name) \/ raw[Len(raw)] < 128
    THEN (IF is_unsigned_type(type_name) THEN V_U64(SumLe(raw, 1)) ELSE V_I64(SumLe(raw, 1)))
    ELSE V_I64(SumLe(SubSeq(raw, 1, Len(raw) - 1), 1)
               + (raw[Len(raw)] - 256) * Pow256(Len(raw) - 1))

decode_pointer_values(bytes, pos, count) ==
    OneOrArray([i \in 1..count |-> V_Ptr(Cursor_read_u64_le(bytes, pos + 8 * (i - 1)))])

decode_primitive_values(bytes, pos, type_name, element_size, count) ==
    OneOrArray([i \in 1..count |->
                   Let(Slice(bytes, pos + element_size * (i - 1), element_size),
                       LAMBDA raw : decode_primitive(type_name, raw))])

\* bytes[..end] where end is the position of the first 0 byte, or bytes.len()
UpToNul(raw) ==
    SubSeq(raw, 1, Cardinality({i \in 1..Len(raw) : \A j \in 1..i : raw[j] # 0}))

\* the element size skip_field_storage steps over
skip_element_size(d, type_name, field, decl) ==
    IF decl.ptr_depth > 0 \/ decl.is_func_ptr THEN 8
    ELSE IF type_name = "void" THEN 1
    ELSE IF d.tlen[field.type_idx + 1] = 0 THEN 1 ELSE d.tlen[field.type_idx + 1]

DecodeErr(kind, n) == [err |-> Some(Error(kind, n)), out |-> << >>, pos |-> 0]

RECURSIVE decode_fields(_, _, _, _, _, _, _, _, _)

\* one element of a field that nests the struct item: decode_struct_impl at
\* depth + 1 on the element bytes, then the rest of the loop
decode_nested(d, fields, bytes, opt, depth, fi, pos, acc, elems, item, size) ==
    Let(decode_fields(d, item.fields, Slice(bytes, pos, size), opt, depth + 1, 1, 0,
                      << >>, << >>),
        LAMBDA nested :
           IF IsSome(nested.err) THEN nested
           ELSE IF opt.strict_layout /\ nested.pos < size
           THEN DecodeErr("DecodeLayoutMismatch", size - nested.pos)
           ELSE Let(Append(elems, V_Struct(StructValue(Dna_type_name(d, item.type_idx),
                                                        nested.out))),
                    LAMBDA decoded :
                       decode_fields(d, fields, bytes, opt, depth, fi, pos + size, acc,
                                     decoded)))

\* the rest of the loop once the value of field fi is known: pos is the
\* cursor after the field
decode_push(d, fields, bytes, opt, depth, fi, pos, acc, ident, value) ==
    Let(<< Append(acc, FieldValue(ident, value)), pos >>, LAMBDA now :
        decode_fields(d, fields, bytes, opt, depth, fi + 1, now[2], now[1], << >>))

\* one pass of the for-loop of decode_struct_impl, on the field fi whose
\* declarator parsed to decl
decode_field(d, fields, bytes, opt, depth, fi, pos, acc, elems, decl) ==
    LET field == fields[fi]
        type_name == Dna_type_name(d, field.type_idx)
        count == decl.inline_array
        size == d.tlen[field.type_idx + 1]
        nested_sdna == Dna_struct_for_type(d, field.type_idx)
        skip == skip_element_size(d, type_name, field, decl) * count
    IN  IF ~opt.include_padding /\ is_padding_field(decl.ident, type_name, count)
        THEN IF ~Cursor_can_read(bytes, pos, skip) THEN DecodeErr("UnexpectedEof", pos)
             ELSE decode_fields(d, fields, bytes, opt, depth, fi + 1, pos + skip, acc, << >>)
        ELSE IF count = 0
        THEN decode_push(d, fields, bytes, opt, depth, fi, pos, acc, decl.ident,
                         V_Array(<< >>))
        ELSE IF count > opt.max_array_elems THEN DecodeErr("DecodeArrayTooLarge", count)
        ELSE IF decl.ptr_depth > 0 \/ decl.is_func_ptr
        THEN IF ~Cursor_can_read(bytes, pos, 8 * count) THEN DecodeErr("UnexpectedEof", pos)
             ELSE decode_push(d, fields, bytes, opt, depth, fi, pos + 8 * count, acc,
                              decl.ident, decode_pointer_values(bytes, pos, count))
        ELSE IF IsSome(nested_sdna) /\ size = 0
        THEN decode_push(d, fields, bytes, opt, depth, fi, pos, acc, decl.ident, V_Null)
        ELSE IF IsSome(nested_sdna) /\ Len(elems) = count
        THEN decode_push(d, fields, bytes, opt, depth, fi, pos, acc, decl.ident,
                         OneOrArray(elems))
        ELSE IF IsSome(nested_sdna)
        THEN \* one nested element: decode_struct_impl at depth + 1
             IF ~Cursor_can_read(bytes, pos, size) THEN DecodeErr("UnexpectedEof", pos)
             ELSE IF depth + 1 >= opt.max_depth
             THEN DecodeErr("DecodeDepthExceeded", opt.max_depth)
             ELSE IF IsNone(Dna_struct_by_sdna(d, Unwrap(nested_sdna)))
             THEN DecodeErr("DecodeMissingSdna", Unwrap(nested_sdna))
             ELSE decode_nested(d, fields, bytes, opt, depth, fi, pos, acc, elems,
                                Unwrap(Dna_struct_by_sdna(d, Unwrap(nested_sdna))), size)
        ELSE IF opt.decode_char_arrays_as_string /\ type_name = "char" /\ count > 1
        THEN IF ~Cursor_can_read(bytes, pos, count) THEN DecodeErr("UnexpectedEof", pos)
             ELSE decode_push(d, fields, bytes, opt, depth, fi, pos + count, acc,
                              decl.ident, V_String(UpToNul(Slice(bytes, pos, count))))
        ELSE IF ~Cursor_can_read(bytes, pos, size * count) THEN DecodeErr("UnexpectedEof", pos)
        ELSE decode_push(d, fields, bytes, opt, depth, fi, pos + size * count, acc,
                         decl.ident,
                         decode_primitive_values(bytes, pos, type_name, size, count))

\* the for-loop of decode_struct_impl at depth, from field fi on with the
\* cursor at pos; elems holds the elements already decoded of a field that is
\* an inline array of structs
decode_fields(d, fields, bytes, opt, depth, fi, pos, acc, elems) ==
    IF fi > Len(fields) THEN [err |-> None, out |-> acc, pos |-> pos]
    ELSE Let(<< parse_field_decl(Dna_field_name(d, fields[fi].name_idx)), fi, pos >>,
             LAMBDA at :
                decode_field(d, fields, bytes, opt, depth, at[2], at[3], acc, elems, at[1]))

\* the end of decode_struct_impl: the leftover bytes and the Result<StructValue>
decode_struct_end(decoded, type_name, bytes, opt) ==
    IF IsSome(decoded.err) THEN Err(Unwrap(decoded.err))
    ELSE IF opt.strict_layout /\ Cursor_remaining(bytes, decoded.pos) > 0
    THEN Err(Error("DecodeLayoutMismatch", Cursor_remaining(bytes, decoded.pos)))
    ELSE Ok(StructValue(type_name, decoded.out))

\* decode_struct_impl once the struct definition item is known
decode_struct_body(d, item, bytes, opt, depth) ==
    Let(decode_fields(d, item.fields, bytes, opt, depth, 1, 0, << >>, << >>),
        LAMBDA decoded :
           decode_struct_end(decoded, Dna_type_name(d, item.type_idx), bytes, opt))

decode_struct_impl(d, sdna_nr, bytes, opt, depth) ==
    IF depth >= opt.max_depth THEN Err(Error("DecodeDepthExceeded", opt.max_depth))
    ELSE Let(Dna_struct_by_sdna(d, sdna_nr), LAMBDA item :
             IF IsNone(item) THEN Err(Error("DecodeMissingSdna", sdna_nr))
             ELSE decode_struct_body(d, Unwrap(item), bytes, opt, depth))

decode_struct_instance(d, sdna_nr, bytes, opt) == decode_struct_impl(d, sdna_nr, bytes, opt, 0)

\* decode_block_instances once the payload is known to hold count structs
decode_block_values(d, block, opt, struct_size, count) ==
    Let([i \in 1..count |->
            decode_struct_impl(d, block.head.sdna_nr,
                               Slice(block.payload, (i - 1) * struct_size, struct_size), opt, 0)],
        LAMBDA values :
           IF \E i \in 1..count : ~values[i].ok
           THEN values[CHOOSE i \in 1..count :
                          ~values[i].ok /\ \A j \in 1..(i - 1) : values[j].ok]
           ELSE IF count = 1 THEN Ok(V_Struct(values[1].v))
           ELSE Ok(V_Array([i \in 1..count |-> V_Struct(values[i].v)])))

\* decode_block_instances
decode_block_instances(d, block, opt) ==
    IF IsNone(Dna_struct_by_sdna(d, block.head.sdna_nr))
    THEN Err(Error("DecodeMissingSdna", block.head.sdna_nr))
    ELSE Let(d.tlen[Unwrap(Dna_struct_by_sdna(d, block.head.sdna_nr)).type_idx + 1],
             LAMBDA struct_size :
                IF block.head.nr > opt.max_array_elems
                THEN Err(Error("DecodeArrayTooLarge", block.head.nr))
                ELSE IF struct_size * block.head.nr > Len(block.payload)
                THEN Err(Error("DecodePayloadTooSmall", struct_size * block.head.nr))
                ELSE decode_block_values(d, block, opt, struct_size, block.head.nr))

\* BlendFile::find_first_block_by_code
find_first_block_by_code(bs, code) ==
    IF \E i \in 1..Len(bs) : bs[i].head.code = code
    THEN Some(bs[CHOOSE i \in 1..Len(bs) :
                   bs[i].head.code = code /\ \A j \in 1..(i - 1) : bs[j].head.code # code])
    ELSE None

----------------------------------------------------------------------------
(* chase_value and deref_pointer (chase_path.rs). The decoded_cache is not  *)
(* a variable: it is keyed by canonical pointers that are all in visited,   *)
(* and a hit returns the value the decoder returns again.                   *)

PathField(name) == [k |-> "Field", name |-> name, index |-> 0]
PathIndex(n) == [k |-> "Index", name |-> "", index |-> n]

NoReason ==
    [kind |-> "", ptr |-> 0, struct_name |-> "", field |-> "", got |-> "", index |-> 0,
     len |-> 0]

ChaseStopReason(kind, ptr) == [NoReason EXCEPT !.kind = kind, !.ptr = ptr]

ChaseStop(step, reason) == [step_index |-> step, reason |-> reason]

ChaseResult(value, hs, stop) == Ok([value |-> value, hops |-> hs, stop |-> stop])

ChaseMeta(ptr, typed) ==
    [ptr |-> ptr,
     resolved_block_code |-> typed.base.entry.block.head.code,
     sdna_nr |-> typed.base.entry.block.head.sdna_nr,
     element_index |-> Unwrap(typed.element_index),
     element_offset |-> typed.element_offset,
     struct_size |-> typed.struct_size,
     block_old |-> typed.base.entry.start_old]

\* the three outcomes of deref_pointer, with hops and visited as it leaves them
DerefStruct(item, hs, vis) ==
    [tag |-> "Struct", item |-> Some(item), reason |-> NoReason, err |-> Error("", 0),
     hops |-> hs, visited |-> vis]

DerefStop(reason, hs, vis) ==
    [tag |-> "Stop", item |-> None, reason |-> reason, err |-> Error("", 0),
     hops |-> hs, visited |-> vis]

DerefErr(err, hs, vis) ==
    [tag |-> "Err", item |-> None, reason |-> NoReason, err |-> err,
     hops |-> hs, visited |-> vis]

\* match mode { Stop => Ok(DerefOutcome::Stop(reason)), Error => Err(err) }
DerefStopOrErr(mode, reason, err, hs, vis) ==
    IF mode = "Stop" THEN DerefStop(reason, hs, vis) ELSE DerefErr(err, hs, vis)

\* a limit that lets one hop more through
Chase_hop_limit_passed(hs, max_hops) == Len(hs) > max_hops

\* hops.len() >= config.policy.max_hops
Chase_hop_limit_reached(hs, max_hops) == Len(hs) >= max_hops

\* visited.contains(&canonical)
Chase_visited_contains(vis, canonical) == canonical \in vis

\* deref_pointer from the decoded value on: the hop is pushed
deref_decoded(ptr, typed, decoded, hs, vis) ==
    IF ~decoded.ok THEN DerefErr(decoded.e, hs, vis)
    ELSE DerefStruct(decoded.v, Append(hs, ChaseMeta(ptr, typed)), vis)

\* deref_pointer from the revisit check on
deref_canonical(d, ptr, typed, start, canonical, config, hs, vis) ==
    IF Chase_visited_contains(vis, canonical)
    THEN DerefStopOrErr(config.policy.on_cycle, ChaseStopReason("Cycle", canonical),
                        Error("ChaseCycle", canonical), hs, vis)
    ELSE IF start + typed.struct_size > Len(typed.base.entry.block.payload)
    THEN DerefErr(Error("ChaseSliceOob", start), hs, vis \cup {canonical})
    ELSE Let(Slice(typed.base.entry.block.payload, start, typed.struct_size),
             LAMBDA bytes :
                Let(decode_struct_instance(d, typed.base.entry.block.head.sdna_nr, bytes,
                                           config.decode),
                    LAMBDA decoded :
                       deref_decoded(ptr, typed, decoded, hs, vis \cup {canonical})))

\* deref_pointer from the resolved entry on
deref_typed(d, ptr, typed, config, hs, vis) ==
    IF IsNone(typed)
    THEN DerefStopOrErr(config.policy.on_unresolved_ptr, ChaseStopReason("UnresolvedPtr", ptr),
                        Error("ChaseUnresolvedPtr", ptr), hs, vis)
    ELSE IF IsNone(Unwrap(typed).element_index)
    THEN DerefStopOrErr(config.policy.on_unresolved_ptr, ChaseStopReason("UnresolvedPtr", ptr),
                        Error("ChasePtrOutOfBounds", ptr), hs, vis)
    ELSE IF Cardinality(vis) >= config.policy.max_visited
    THEN DerefStopOrErr(config.policy.on_cycle, ChaseStopReason("Cycle", ptr),
                        Error("ChaseCycle", ptr), hs, vis)
    ELSE deref_canonical(d, ptr, Unwrap(typed),
                         Unwrap(Unwrap(typed).element_index) * Unwrap(typed).struct_size,
                         Unwrap(typed).base.entry.start_old
                         + Unwrap(Unwrap(typed).element_index) * Unwrap(typed).struct_size,
                         config, hs, vis)

deref_pointer(d, idx, ptr, config, hs, vis) ==
    IF Chase_hop_limit_reached(hs, config.policy.max_hops)
    THEN DerefErr(Error("ChaseHopLimitExceeded", config.policy.max_hops), hs, vis)
    ELSE IF ptr = 0
    THEN DerefStopOrErr(config.policy.on_null_ptr, ChaseStopReason("NullPtr", 0),
                        Error("ChaseNullPtr", 0), hs, vis)
    ELSE Let(PointerIndex_resolve_typed(idx, d, ptr), LAMBDA typed :
             deref_typed(d, ptr, typed, config, hs, vis))

\* what one pass of the inner loop of chase_value hands back: ret is
\* Some(result) when chase_value returns, advance tells a break (next path
\* step) from a continue (same step again)
ChaseReturn(ret, cur, hs, vis) ==
    [ret |-> Some(ret), current |-> cur, advance |-> FALSE, hops |-> hs, visited |-> vis]

ChaseGoOn(cur, advance, hs, vis) ==
    [ret |-> None, current |-> cur, advance |-> advance, hops |-> hs, visited |-> vis]

\* return Ok(ChaseResult { value: current, hops, stop: Some(ChaseStop { step_index, reason }) })
ChaseStopped(cur, hs, vis, step, reason) ==
    ChaseReturn(ChaseResult(cur, hs, Some(ChaseStop(step, reason))), cur, hs, vis)

\* item.fields.iter().find(|candidate| candidate.name == field_name)
Chase_find_field(fields, field_name) ==
    IF \E i \in 1..Len(fields) : fields[i].name = field_name
    THEN Some(fields[CHOOSE i \in 1..Len(fields) :
                       /\ fields[i].name = field_name
                       /\ \A j \in 1..(i - 1) : fields[j].name # field_name])
    ELSE None

\* the arms that dereference current: what chase_value does with the outcome
Chase_after_deref(cur, step, outcome) ==
    IF outcome.tag = "Err"
    THEN ChaseReturn(Err(outcome.err), cur, outcome.hops, outcome.visited)
    ELSE IF outcome.tag = "Stop"
    THEN ChaseStopped(cur, outcome.hops, outcome.visited, step, outcome.reason)
    ELSE ChaseGoOn(V_Struct(Unwrap(outcome.item)), FALSE, outcome.hops, outcome.visited)

\* the arm (PathStep::Field(field_name), Value::Struct(item))
Chase_field_of_struct(cur, step, field_name, found, hs, vis) ==
    IF IsNone(found)
    THEN ChaseStopped(cur, hs, vis, step,
                      [NoReason EXCEPT !.kind = "MissingField",
                                       !.struct_name = cur.item.type_name,
                                       !.field = field_name])
    ELSE ChaseGoOn(Unwrap(found).value, TRUE, hs, vis)

\* the arm (PathStep::Field(_), Value::Array(items))
Chase_field_of_array(cur, step, policy, hs, vis) ==
    IF IsNone(policy.array_default_index)
    THEN ChaseStopped(cur, hs, vis, step,
                      [NoReason EXCEPT !.kind = "ExpectedStruct", !.got = "Array"])
    ELSE IF Unwrap(policy.array_default_index) >= Len(cur.items)
    THEN ChaseStopped(cur, hs, vis, step,
                      [NoReason EXCEPT !.kind = "IndexOob",
                                       !.index = Unwrap(policy.array_default_index),
                                       !.len = Len(cur.items)])
    ELSE ChaseGoOn(cur.items[Unwrap(policy.array_default_index) + 1], FALSE, hs, vis)

\* the arm (PathStep::Index(index_value), Value::Array(items))
Chase_index_of_array(cur, step, index_value, hs, vis) ==
    IF index_value >= Len(cur.items)
    THEN ChaseStopped(cur, hs, vis, step,
                      [NoReason EXCEPT !.kind = "IndexOob", !.index = index_value,
                                       !.len = Len(cur.items)])
    ELSE ChaseGoOn(cur.items[index_value + 1], TRUE, hs, vis)

\* one pass of the inner loop: match (step, current.clone())
Chase_match(d, idx, config, at, step, cur, hs, vis) ==
    IF cur.k = "Ptr"
    THEN Let(deref_pointer(d, idx, cur.ptr, config, hs, vis), LAMBDA outcome :
             Chase_after_deref(cur, at, outcome))
    ELSE IF step.k = "Field" /\ cur.k = "Struct"
    THEN Let(Chase_find_field(cur.item.fields, step.name), LAMBDA found :
             Chase_field_of_struct(cur, at, step.name, found, hs, vis))
    ELSE IF step.k = "Field" /\ cur.k = "Array"
    THEN Chase_field_of_array(cur, at, config.policy, hs, vis)
    ELSE IF step.k = "Field"
    THEN ChaseStopped(cur, hs, vis, at,
                      [NoReason EXCEPT !.kind = "ExpectedStruct", !.got = value_kind(cur)])
    ELSE IF cur.k = "Array"
    THEN Chase_index_of_array(cur, at, step.index, hs, vis)
    ELSE ChaseStopped(cur, hs, vis, at,
                      [NoReason EXCEPT !.kind = "ExpectedArray", !.got = value_kind(cur)])

\* one pass of the loop after the path: dereference while current is a pointer
Chase_final(d, idx, config, final_step, cur, hs, vis) ==
    IF cur.k # "Ptr" THEN ChaseReturn(ChaseResult(cur, hs, None), cur, hs, vis)
    ELSE Let(deref_pointer(d, idx, cur.ptr, config, hs, vis), LAMBDA outcome :
             Chase_after_deref(cur, final_step, outcome))

\* the variables no chase touches
ChaseUnused == <<items, queue, nodes_by_ptr, edges, parents, visited_edges, truncated,
                 hit_depth_limit, out>>

\* chase_from_ptr: chase_value(Value::Ptr(root_ptr), ..)
ChaseStart ==
    /\ op.name = "chase"
    /\ pc = "start"
    /\ IsNone(op.root_code)
    /\ current' = Some(V_Ptr(op.root_ptr))
    /\ pc' = "loop"
    /\ UNCHANGED <<world, op, result, step_index, hops, visited, ChaseUnused>>

\* chase_from_block_code: the first block of the code is decoded and
\* chase_value starts from its value
ChaseStartFromBlock ==
    /\ op.name = "chase"
    /\ pc = "start"
    /\ IsSome(op.root_code)
    /\ \E block \in {find_first_block_by_code(blocks, Unwrap(op.root_code))} :
          IF IsNone(block)
          THEN /\ result' = Err(Error("BlockNotFound", 0))
               /\ pc' = "done"
               /\ UNCHANGED current
          ELSE \E root \in {decode_block_instances(dna, Unwrap(block), op.decode)} :
                  IF root.ok
                  THEN /\ current' = Some(root.v)
                       /\ pc' = "loop"
                       /\ UNCHANGED result
                  ELSE /\ result' = root
                       /\ pc' = "done"
                       /\ UNCHANGED current
    /\ UNCHANGED <<world, op, step_index, hops, visited, ChaseUnused>>

\* the assignments of one pass that handed back r
ChaseApply(r) ==
    /\ hops' = r.hops
    /\ visited' = r.visited
    /\ current' = Some(r.current)
    /\ IF IsSome(r.ret)
       THEN /\ result' = Unwrap(r.ret)
            /\ pc' = "done"
            /\ UNCHANGED step_index
       ELSE /\ step_index' = IF r.advance THEN step_index + 1 ELSE step_index
            /\ UNCHANGED <<result, pc>>

\* one pass of the inner loop at path step step_index
ChaseStep ==
    /\ op.name = "chase"
    /\ pc = "loop"
    /\ step_index < Len(op.path)
    /\ \E r \in {Chase_match(dna, index, [decode |-> op.decode, policy |-> op.policy],
                              step_index, op.path[step_index + 1], Unwrap(current),
                              hops, visited)} : ChaseApply(r)
    /\ UNCHANGED <<world, op, ChaseUnused>>

\* one pass of the loop after the path
ChaseFinal ==
    /\ op.name = "chase"
    /\ pc = "loop"
    /\ step_index = Len(op.path)
    /\ \E r \in {Chase_final(dna, index, [decode |-> op.decode, policy |-> op.policy],
                              Len(op.path), Unwrap(current), hops, visited)} : ChaseApply(r)
    /\ UNCHANGED <<world, op, ChaseUnused>>

\* files for the chase: A.next leads into B, the other pointers stay null
ChaseWorlds ==
    { TraversalBlocks([a |-> Slot(na, 0), b0 |-> Slot(nb0, 0), b1 |-> Slot(nb1, 0)]) :
        na \in {0, AddrB, AddrB1 + 8, AddrUnmapped}, nb0 \in {0, AddrA, AddrB1},
        nb1 \in {0, AddrA + 4, AddrB1, AddrTail} }

ChasePaths ==
    { << PathField("next"), PathField("next"), PathField("next") >>,
      << PathField("next"), PathField("other") >>,
      << PathField("v"), PathIndex(1), PathField("next") >>,
      << PathField("next"), PathIndex(0) >> }

ChasePolicies ==
    [max_hops : 0..MaxLimit, max_visited : {1, 10000}, array_default_index : {None, Some(0)},
     on_null_ptr : StopModes, on_unresolved_ptr : StopModes, on_cycle : StopModes]

InitChase ==
    /\ dna = NodeDna
    /\ blocks \in ChaseWorlds
    /\ index = PointerIndex_build(blocks, "AddressRanges")
    /\ ids = << >>
    /\ \E root \in { [ptr |-> p, code |-> None] : p \in {0, AddrA, AddrB + 4} }
                     \cup { [ptr |-> 0, code |-> Some(c)] : c \in {"DATA", "NONE"} },
          path \in ChasePaths, policy \in ChasePolicies :
          op = [name |-> "chase", root_ptr |-> root.ptr, root_code |-> root.code, path |-> path,
                decode |-> DecodeOptions_default, policy |-> policy]
    /\ pc = "start"
    /\ result = None
    /\ IdleLocals

NextChase == ChaseStart \/ ChaseStartFromBlock \/ ChaseStep \/ ChaseFinal

SpecChase == InitChase /\ [][NextChase]_vars

----------------------------------------------------------------------------
(* Properties of chase_from_ptr.                                            *)

ChaseDone == op.name = "chase" /\ pc = "done"

\* block_old + element_index * struct_size of a hop
HopCanonical(hop) == hop.block_old + hop.element_index * hop.struct_size

HopCanonicals(hs) == {HopCanonical(hs[i]) : i \in 1..Len(hs)}

\* the chase ended on an attempt to dereference a pointer whose canonical
\* pointer is that of an instance dereferenced earlier in this chase
ChaseEndedOnRevisit ==
    /\ ChaseDone
    /\ IsSome(current)
    /\ Unwrap(current).k = "Ptr"
    /\ IsSome(PointerIndex_canonical_ptr(index, dna, Unwrap(current).ptr))
    /\ Unwrap(PointerIndex_canonical_ptr(index, dna, Unwrap(current).ptr))
          \in HopCanonicals(hops)

\* the file has A.next = B and B.next = A, and next.next.next is chased from A
\* with on_cycle = Stop and room for three hops
ChaseTwoCycle ==
    /\ op.name = "chase"
    /\ RawNext(AddrA) = AddrB
    /\ RawNext(AddrB) = AddrA
    /\ op.root_ptr = AddrA
    /\ op.path = << PathField("next"), PathField("next"), PathField("next") >>
    /\ op.policy.on_cycle = "Stop"
    /\ op.policy.max_hops >= 3
    /\ op.policy.max_visited >= 3

\* C1: the hops of a chase have pairwise distinct canonical pointers; when the
\* next pointer to dereference canonicalizes to an instance already visited in
\* this chase the outcome is a Cycle stop under on_cycle = Stop and a
\* ChaseCycle error under on_cycle = Error; and with A.next = B and B.next = A,
\* chasing next.next.next from A with on_cycle = Stop gives exactly 2 hops and
\* a Cycle stop.
C1_ChaseNeverRevisits ==
    /\ op.name = "chase" =>
          \A i, j \in 1..Len(hops) : HopCanonical(hops[i]) = HopCanonical(hops[j]) => i = j
    /\ (ChaseDone /\ result.ok) => result.v.hops = hops
    /\ ChaseEndedOnRevisit =>
          IF op.policy.on_cycle = "Stop"
          THEN /\ result.ok
               /\ IsSome(result.v.stop)
               /\ Unwrap(result.v.stop).reason.kind = "Cycle"
          ELSE /\ ~result.ok
               /\ result.e.kind = "ChaseCycle"
    /\ (ChaseDone /\ ChaseTwoCycle) =>
          /\ result.ok
          /\ Len(result.v.hops) = 2
          /\ IsSome(result.v.stop)
          /\ Unwrap(result.v.stop).reason.kind = "Cycle"

----------------------------------------------------------------------------
(* build_graph_from_ptr (graph/mod.rs), one action per dequeued node.       *)

\* the field paths of the schema in the order of str::cmp
FieldOrder ==
    << "arr[0]", "arr[1]", "cb", "deep", "first", "leaf.deep", "nested.first",
       "nested.leaf.deep", "next", "other" >>

FieldRank(field) == CHOOSE i \in 1..Len(FieldOrder) : FieldOrder[i] = field

\* a.from.cmp(&b.from).then_with(a.to.cmp(&b.to)).then_with(a.field.cmp(&b.field))
EdgeLess(a, b) ==
    \/ a.from < b.from
    \/ a.from = b.from /\ a.to < b.to
    \/ a.from = b.from /\ a.to = b.to /\ FieldRank(a.field) < FieldRank(b.field)

\* edges.sort_by(..): a stable sort
RECURSIVE SortEdges(_)
SortEdges(es) ==
    IF es = << >> THEN << >>
    ELSE Let(SortEdges(SubSeq(es, 1, Len(es) - 1)), LAMBDA sorted :
             Let(Cardinality({i \in 1..Len(sorted) : ~EdgeLess(es[Len(es)], sorted[i])}),
                 LAMBDA k : SubSeq(sorted, 1, k) \o << es[Len(es)] >>
                            \o SubSeq(sorted, k + 1, Len(sorted))))

\* nodes_by_ptr.into_values().collect(): the nodes of the map in the iteration
\* order of the HashMap, which is any order
HashMap_into_values(ns) ==
    {order \in [1..Cardinality(ns) -> ns] :
        \A i, j \in 1..Cardinality(ns) : order[i] = order[j] => i = j}

\* a node list left in the order the map gave it
Vec_unsorted(order) == order

\* nodes.sort_by_key(|node| node.canonical): a stable sort
RECURSIVE SortNodes(_)
SortNodes(order) ==
    IF order = << >> THEN << >>
    ELSE Let(SortNodes(SubSeq(order, 1, Len(order) - 1)), LAMBDA sorted :
             Let(Cardinality({i \in 1..Len(sorted) :
                                 sorted[i].canonical <= order[Len(order)].canonical}),
                 LAMBDA k : SubSeq(sorted, 1, k) \o << order[Len(order)] >>
                            \o SubSeq(sorted, k + 1, Len(sorted))))

GraphEdge(from, to, field) == [from |-> from, to |-> to, field |-> field]

NodeKeys(ns) == {n.canonical : n \in ns}

\* resolve_canonical_typed: the canonical pointer and typed entry of ptr, or
\* the error for a pointer that resolves to no element
PointerIndex_resolve_canonical_typed(idx, d, ptr) ==
    Let(PointerIndex_resolve_typed(idx, d, ptr), LAMBDA typed :
        IF IsNone(typed)
        THEN Err(Error("ChaseUnresolvedPtr", ptr))
        ELSE IF IsNone(Unwrap(typed).element_index)
        THEN Err(Error("ChasePtrOutOfBounds", ptr))
        ELSE Ok([canonical |-> Unwrap(PointerIndex_canonical_ptr(idx, d, ptr)),
                 typed |-> Unwrap(typed)]))

\* resolve_graph_node once the pointer has resolved
GraphNode(d, records, canonical, typed) ==
    [canonical |-> canonical,
     code |-> typed.base.entry.block.head.code,
     sdna_nr |-> typed.base.entry.block.head.sdna_nr,
     type_name |-> IF IsSome(Dna_struct_by_sdna(d, typed.base.entry.block.head.sdna_nr))
                   THEN Dna_type_name(d, Unwrap(Dna_struct_by_sdna(
                                                   d, typed.base.entry.block.head.sdna_nr)).type_idx)
                   ELSE "<unknown>",
     id_name |-> IF IsSome(IdIndex_get_by_ptr(records, canonical))
                 THEN Some(Unwrap(IdIndex_get_by_ptr(records, canonical)).id_name)
                 ELSE None]

\* nodes_by_ptr.len() >= options.max_nodes
Graph_nodes_full(ns, max_nodes) == Cardinality(ns) >= max_nodes

RECURSIVE Graph_for_refs(_, _, _, _, _, _)

\* the for-loop over the references of current from record i on; st holds
\* nodes_by_ptr, seen, queue, edges and truncated, and broke tells that the
\* loop left through break 'outer
Graph_for_refs(refs, i, cur, depth, options, st) ==
    IF i > Len(refs) THEN st
    ELSE
    LET record == refs[i]
    IN  IF options.skip_null_ptrs /\ record.ptr = 0
        THEN Graph_for_refs(refs, i + 1, cur, depth, options, st)
        ELSE IF IsNone(record.resolved)
        THEN Graph_for_refs(refs, i + 1, cur, depth, options, st)
        ELSE
        LET target == Unwrap(record.resolved)
            edge_key == GraphEdge(cur, target.canonical, record.field)
        IN  IF target.canonical \notin NodeKeys(st.nodes)
               /\ Graph_nodes_full(st.nodes, options.max_nodes)
            THEN [st EXCEPT !.truncated = Some("MaxNodes"), !.broke = TRUE]
            ELSE Let([st EXCEPT
                        !.nodes = IF target.canonical \in NodeKeys(st.nodes) THEN @
                                  ELSE @ \cup {target},
                        !.seen = @ \cup {target.canonical},
                        !.queue = IF target.canonical \in st.seen THEN @
                                  ELSE Append(@, << target.canonical, depth + 1 >>)],
                     LAMBDA st1 :
                        IF edge_key \in SeqRange(st1.edges)
                        THEN Graph_for_refs(refs, i + 1, cur, depth, options, st1)
                        ELSE IF Len(st1.edges) >= options.max_edges
                        THEN [st1 EXCEPT !.truncated = Some("MaxEdges"), !.broke = TRUE]
                        ELSE Let([st1 EXCEPT !.edges = Append(@, edge_key)],
                                 LAMBDA st2 :
                                    Graph_for_refs(refs, i + 1, cur, depth, options, st2)))

\* a filter that keeps every node
Graph_allowed_any(ns, root_canonical) == NodeKeys(ns)

\* the id_only filter: the canonical pointers of the nodes it keeps
Graph_allowed(ns, root_canonical) ==
    {n.canonical : n \in {m \in ns : IsSome(m.id_name) \/ m.canonical = root_canonical}}

\* a result that reports the node and edge budgets only
Graph_truncated_budget_only(trunc, hit) == trunc

\* if truncated.is_none() && hit_depth_limit { truncated = Some(MaxDepth) }
Graph_truncated(trunc, hit) == IF IsNone(trunc) /\ hit THEN Some("MaxDepth") ELSE trunc

\* build_graph_from_ptr after its loop, order being the order in which the
\* map handed out its nodes
Graph_result(order, es, trunc, hit, options, root_canonical) ==
    Let(<< SortNodes(order), Graph_allowed(SeqRange(order), root_canonical) >>, LAMBDA p :
        Ok([nodes |-> IF options.id_only
                      THEN SelectSeq(p[1], LAMBDA node : node.canonical \in p[2])
                      ELSE p[1],
            edges |-> IF options.id_only
                      THEN SortEdges(SelectSeq(es, LAMBDA edge :
                                         edge.from \in p[2] /\ edge.to \in p[2]))
                      ELSE SortEdges(es),
            truncated |-> Graph_truncated(trunc, hit)]))

\* the variables no graph build touches
GraphUnused == <<step_index, hops, items, parents, visited_edges, out>>

\* build_graph_from_ptr once the root has resolved to r
GraphStartResolved(r) ==
    IF ~r.ok
    THEN /\ result' = Err(r.e)
         /\ pc' = "done"
         /\ UNCHANGED <<current, nodes_by_ptr, queue, visited>>
    ELSE /\ current' = Some(r.v.canonical)
         /\ nodes_by_ptr' = {GraphNode(dna, ids, r.v.canonical, r.v.typed)}
         /\ queue' = << << r.v.canonical, 0 >> >>
         /\ visited' = {r.v.canonical}
         /\ pc' = "loop"
         /\ UNCHANGED result

\* build_graph_from_ptr up to its loop
GraphStart ==
    /\ op.name = "graph"
    /\ pc = "start"
    /\ IF op.root_ptr = 0
       THEN /\ result' = Err(Error("ChaseNullPtr", 0))
            /\ pc' = "done"
            /\ UNCHANGED <<current, nodes_by_ptr, queue, visited>>
       ELSE \E r \in {PointerIndex_resolve_canonical_typed(index, dna, op.root_ptr)} :
               GraphStartResolved(r)
    /\ UNCHANGED <<world, op, edges, truncated, hit_depth_limit, GraphUnused>>

\* a loop head that reads the front of the queue and leaves it in place
VecDeque_front_kept(q) == q

\* what queue.pop_front() leaves in the queue
VecDeque_pop_front(q) == Tail(q)

\* the assignments of the for-loop that ended in st
GraphApply(st) ==
    /\ nodes_by_ptr' = st.nodes
    /\ visited' = st.seen
    /\ queue' = st.queue
    /\ edges' = st.edges
    /\ truncated' = st.truncated
    /\ pc' = IF st.broke THEN "finish" ELSE "loop"
    /\ UNCHANGED <<result, hit_depth_limit>>

\* the body of the loop on a dequeued node below max_depth, refs being what
\* scan_refs_from_ptr returned for it
GraphScanned(cur, depth, refs) ==
    IF ~refs.ok
    THEN /\ result' = Err(refs.e)
         /\ pc' = "done"
         /\ queue' = VecDeque_pop_front(queue)
         /\ UNCHANGED <<nodes_by_ptr, visited, edges, truncated, hit_depth_limit>>
    ELSE \E st \in {Graph_for_refs(refs.v, 1, cur, depth, op.options,
                                   [nodes |-> nodes_by_ptr, seen |-> visited,
                                    queue |-> VecDeque_pop_front(queue), edges |-> edges,
                                    truncated |-> truncated, broke |-> FALSE])} :
            GraphApply(st)

\* one iteration of  'outer: while let Some((current, depth)) = queue.pop_front()
GraphVisit ==
    /\ op.name = "graph"
    /\ pc = "loop"
    /\ queue # << >>
    /\ IF Head(queue)[2] >= op.options.max_depth
       THEN /\ hit_depth_limit' = TRUE
            /\ queue' = VecDeque_pop_front(queue)
            /\ UNCHANGED <<result, pc, nodes_by_ptr, visited, edges, truncated>>
       ELSE \E refs \in {scan_refs_from_ptr(dna, index, ids, Head(queue)[1],
                                            op.options.ref_scan)} :
               GraphScanned(Head(queue)[1], Head(queue)[2], refs)
    /\ UNCHANGED <<world, op, current, GraphUnused>>

\* build_graph_from_ptr after its loop: the queue ran empty or a budget broke
\* out of it
GraphFinish ==
    /\ op.name = "graph"
    /\ pc = "finish" \/ (pc = "loop" /\ queue = << >>)
    /\ \E order \in HashMap_into_values(nodes_by_ptr) :
          result' = Graph_result(order, edges, truncated, hit_depth_limit, op.options,
                                 Unwrap(current))
    /\ pc' = "done"
    /\ UNCHANGED <<world, op, current, queue, nodes_by_ptr, visited, edges, truncated,
                   hit_depth_limit, GraphUnused>>

\* files for the BFS traversals: both pointer fields of the three Node
\* instances vary
BfsWorlds ==
    { TraversalBlocks([a |-> Slot(na, oa), b0 |-> Slot(nb0, ob0), b1 |-> Slot(nb1, 0)]) :
        na \in {0, AddrB, AddrB1}, oa \in {0, AddrB1 + 8, AddrC, AddrUnmapped},
        nb0 \in {AddrA, AddrB1}, ob0 \in {0, AddrB},
        nb1 \in {0, AddrA + 4} }

\* the ID records of the file: A and element 1 of B are ID roots
BfsIds == << IdRecord(AddrA, "SCScene"), IdRecord(AddrB1, "OBCube") >>

GraphOptions ==
    [max_depth : 0..MaxLimit, max_nodes : {2, MaxLimit, 4096}, max_edges : {1, MaxLimit, 16384},
     ref_scan : {RefScanOptions_default}, id_only : BOOLEAN, skip_null_ptrs : BOOLEAN]

InitGraph ==
    /\ dna = NodeDna
    /\ blocks \in BfsWorlds
    /\ index = PointerIndex_build(blocks, "AddressRanges")
    /\ ids = BfsIds
    /\ \E root_ptr \in {0, AddrA, AddrB + 4, AddrTail}, options \in GraphOptions :
          op = [name |-> "graph", root_ptr |-> root_ptr, options |-> options]
    /\ pc = "start"
    /\ result = None
    /\ IdleLocals

NextGraph == GraphStart \/ GraphVisit \/ GraphFinish

SpecGraph == InitGraph /\ [][NextGraph]_vars

----------------------------------------------------------------------------
(* find_route_between_ptrs (route.rs), one action per dequeued node.        *)

\* canonicalize_ptr
canonicalize_ptr(d, idx, ptr) ==
    IF ptr = 0 THEN Err(Error("ChaseNullPtr", 0))
    ELSE Let(<< PointerIndex_resolve_typed(idx, d, ptr),
                PointerIndex_canonical_ptr(idx, d, ptr) >>,
             LAMBDA found :
                IF IsNone(found[1])
                THEN Err(Error("ChaseUnresolvedPtr", ptr))
                ELSE IF IsNone(Unwrap(found[1]).element_index)
                THEN Err(Error("ChasePtrOutOfBounds", ptr))
                ELSE IF IsNone(found[2])
                THEN Err(Error("ChasePtrOutOfBounds", ptr))
                ELSE Ok(Unwrap(found[2])))

RouteEdge(from, to, field) == [from |-> from, to |-> to, field |-> field]

RouteResult(path, visited_nodes, ve, trunc) ==
    Ok([path |-> path, visited_nodes |-> visited_nodes, visited_edges |-> ve,
        truncated |-> trunc])

\* the entry of next in the parents map
Route_parent(ps, next) == CHOOSE p \in ps : p.node = next

\* reconstruct_route before out.reverse(): the edges from to back to from
RECURSIVE Route_back(_, _, _, _)
Route_back(from, cur, ps, acc) ==
    IF cur = from THEN Ok(acc)
    ELSE IF ~\E p \in ps : p.node = cur THEN Err(Error("ChaseUnresolvedPtr", cur))
    ELSE Let(Route_parent(ps, cur), LAMBDA parent :
             Let(Append(acc, RouteEdge(parent.prev, cur, parent.field)), LAMBDA walked :
                 Route_back(from, parent.prev, ps, walked)))

Reverse(s) == [i \in 1..Len(s) |-> s[Len(s) + 1 - i]]

reconstruct_route(from, to, ps) ==
    Let(Route_back(from, to, ps, << >>), LAMBDA back :
        IF back.ok THEN Ok(Reverse(back.v)) ELSE back)

\* left.0.cmp(&right.0).then_with(|| left.1.cmp(&right.1)) on (canonical, field)
NextEdgeLess(a, b) ==
    \/ a.next < b.next
    \/ a.next = b.next /\ FieldRank(a.field) < FieldRank(b.field)

\* next_edges.sort_by(..): a stable sort
RECURSIVE SortNextEdges(_)
SortNextEdges(es) ==
    IF es = << >> THEN << >>
    ELSE Let(SortNextEdges(SubSeq(es, 1, Len(es) - 1)), LAMBDA sorted :
             Let(Cardinality({i \in 1..Len(sorted) :
                                 ~NextEdgeLess(es[Len(es)], sorted[i])}),
                 LAMBDA k : SubSeq(sorted, 1, k) \o << es[Len(es)] >>
                            \o SubSeq(sorted, k + 1, Len(sorted))))

\* a depth test that expands one level more
Route_depth_reached_late(depth, max_depth) == depth > max_depth

\* depth >= options.max_depth
Route_depth_reached(depth, max_depth) == depth >= max_depth

\* visited.contains(&next)
Route_already_visited(vis, next) == next \in vis

RECURSIVE Route_collect(_, _, _, _, _)

\* the first for-loop: counts the resolved references of the node and collects
\* them as next_edges; broke tells that max_edges broke out of the search
Route_collect(refs, i, ve, max_edges, acc) ==
    IF i > Len(refs) THEN [visited_edges |-> ve, next_edges |-> acc, broke |-> FALSE]
    ELSE IF IsNone(refs[i].resolved) THEN Route_collect(refs, i + 1, ve, max_edges, acc)
    ELSE IF ve + 1 > max_edges
    THEN [visited_edges |-> ve + 1, next_edges |-> acc, broke |-> TRUE]
    ELSE Let(Append(acc, [next |-> Unwrap(refs[i].resolved).canonical,
                          field |-> refs[i].field]),
             LAMBDA pushed : Route_collect(refs, i + 1, ve + 1, max_edges, pushed))

RECURSIVE Route_expand(_, _, _, _, _, _, _)

\* the second for-loop, over the sorted next_edges from edge i on; st holds
\* visited, parents, queue and truncated; broke tells a break 'outer and found
\* that the target was reached
Route_expand(next_edges, i, cur, depth, to, options, st) ==
    IF i > Len(next_edges) THEN st
    ELSE IF Route_already_visited(st.visited, next_edges[i].next)
    THEN Route_expand(next_edges, i + 1, cur, depth, to, options, st)
    ELSE IF Cardinality(st.visited) >= options.max_nodes
    THEN [st EXCEPT !.truncated = Some("MaxNodes"), !.broke = TRUE]
    ELSE IF next_edges[i].next = to
    THEN [st EXCEPT !.visited = @ \cup {to},
                    !.parents = {p \in @ : p.node # to}
                                \cup {[node |-> to, prev |-> cur,
                                       field |-> next_edges[i].field]},
                    !.found = TRUE]
    ELSE Let([st EXCEPT !.visited = @ \cup {next_edges[i].next},
                        !.parents = {p \in @ : p.node # next_edges[i].next}
                                    \cup {[node |-> next_edges[i].next, prev |-> cur,
                                           field |-> next_edges[i].field]},
                        !.queue = Append(@, << next_edges[i].next, depth + 1 >>)],
             LAMBDA st1 : Route_expand(next_edges, i + 1, cur, depth, to, options, st1))

\* the variables no route search touches
RouteUnused == <<step_index, hops, items, nodes_by_ptr, edges, out>>

RouteLocals == <<queue, visited, parents, visited_edges, truncated, hit_depth_limit>>

\* find_route_between_ptrs once both ends are canonical
RouteStartCanonical(from, to) ==
    IF ~from.ok \/ ~to.ok
    THEN /\ result' = IF ~from.ok THEN Err(from.e) ELSE Err(to.e)
         /\ pc' = "done"
         /\ UNCHANGED <<current, queue, visited>>
    ELSE IF from.v = to.v
    THEN /\ result' = RouteResult(Some(<< >>), 1, 0, None)
         /\ pc' = "done"
         /\ UNCHANGED <<current, queue, visited>>
    ELSE /\ current' = Some([from |-> from.v, to |-> to.v])
         /\ queue' = << << from.v, 0 >> >>
         /\ visited' = {from.v}
         /\ pc' = "loop"
         /\ UNCHANGED result

\* find_route_between_ptrs up to its loop
RouteStart ==
    /\ op.name = "route"
    /\ pc = "start"
    /\ \E from \in {canonicalize_ptr(dna, index, op.from_ptr)},
          to \in {canonicalize_ptr(dna, index, op.to_ptr)} :
           RouteStartCanonical(from, to)
    /\ UNCHANGED <<world, op, parents, visited_edges, truncated, hit_depth_limit, RouteUnused>>

\* the assignments of the second for-loop that ended in st; path is the
\* reconstructed route when the target was found
RouteApply(st, path) ==
    /\ visited' = st.visited
    /\ parents' = st.parents
    /\ queue' = st.queue
    /\ truncated' = st.truncated
    /\ IF st.found
       THEN /\ result' = IF path.ok
                         THEN RouteResult(Some(path.v), Cardinality(st.visited),
                                          visited_edges', st.truncated)
                         ELSE path
            /\ pc' = "done"
       ELSE /\ pc' = IF st.broke THEN "finish" ELSE "loop"
            /\ UNCHANGED result

\* the body of the loop from the sorted next_edges on
RouteExpanded(st) ==
    \E path \in {IF st.found
                 THEN reconstruct_route(Unwrap(current).from, Unwrap(current).to,
                                        st.parents)
                 ELSE Ok(<< >>)} :
        RouteApply(st, path)

\* the body of the loop after the first for-loop handed back c
RouteCollected(cur, depth, c) ==
    /\ visited_edges' = c.visited_edges
    /\ IF c.broke
       THEN /\ truncated' = Some("MaxEdges")
            /\ pc' = "finish"
            /\ queue' = Tail(queue)
            /\ UNCHANGED <<result, visited, parents>>
       ELSE \E next_edges \in {SortNextEdges(c.next_edges)} :
            \E st \in {Route_expand(next_edges, 1, cur, depth, Unwrap(current).to,
                                    op.options,
                                    [visited |-> visited, parents |-> parents,
                                     queue |-> Tail(queue), truncated |-> truncated,
                                     broke |-> FALSE, found |-> FALSE])} :
               RouteExpanded(st)

\* the body of the loop on a dequeued node below max_depth
RouteScanned(cur, depth, refs) ==
    IF ~refs.ok
    THEN /\ result' = Err(refs.e)
         /\ pc' = "done"
         /\ queue' = Tail(queue)
         /\ UNCHANGED <<visited, parents, visited_edges, truncated>>
    ELSE \E c \in {Route_collect(refs.v, 1, visited_edges, op.options.max_edges,
                                  << >>)} :
            RouteCollected(cur, depth, c)

\* one iteration of  'outer: while let Some((current, depth)) = queue.pop_front()
RouteVisit ==
    /\ op.name = "route"
    /\ pc = "loop"
    /\ queue # << >>
    /\ IF Route_depth_reached(Head(queue)[2], op.options.max_depth)
       THEN /\ hit_depth_limit' = TRUE
            /\ queue' = Tail(queue)
            /\ UNCHANGED <<result, pc, visited, parents, visited_edges, truncated>>
       ELSE /\ \E refs \in {scan_refs_from_ptr(dna, index, ids, Head(queue)[1],
                                                 op.options.ref_scan)} :
                   RouteScanned(Head(queue)[1], Head(queue)[2], refs)
            /\ UNCHANGED hit_depth_limit
    /\ UNCHANGED <<world, op, current, RouteUnused>>

\* find_route_between_ptrs after its loop, the target not having been reached
RouteFinish ==
    /\ op.name = "route"
    /\ pc = "finish" \/ (pc = "loop" /\ queue = << >>)
    /\ result' = RouteResult(None, Cardinality(visited), visited_edges,
                             IF IsNone(truncated) /\ hit_depth_limit THEN Some("MaxDepth")
                             ELSE truncated)
    /\ pc' = "done"
    /\ UNCHANGED <<world, op, current, RouteLocals, RouteUnused>>

RouteOptions ==
    [max_depth : 0..MaxLimit, max_nodes : {2, MaxLimit, 20000}, max_edges : {1, MaxLimit, 100000},
     ref_scan : {RefScanOptions_default}]

InitRoute ==
    /\ dna = NodeDna
    /\ blocks \in BfsWorlds
    /\ index = PointerIndex_build(blocks, "AddressRanges")
    /\ ids = BfsIds
    /\ \E from_ptr \in {AddrA, AddrB + 4, AddrUnmapped}, to_ptr \in {0, AddrA + 8, AddrB1, AddrC},
          options \in RouteOptions :
          op = [name |-> "route", from_ptr |-> from_ptr, to_ptr |-> to_ptr,
                options |-> options]
    /\ pc = "start"
    /\ result = None
    /\ IdleLocals

NextRoute == RouteStart \/ RouteVisit \/ RouteFinish

SpecRoute == InitRoute /\ [][NextRoute]_vars

\* both BFS traversals on the same files
InitBfs == InitGraph \/ InitRoute

NextBfs == NextGraph \/ NextRoute

SpecBfs == InitBfs /\ [][NextBfs]_vars

----------------------------------------------------------------------------
(* Properties of the BFS traversals.                                        *)

GraphDone == op.name = "graph" /\ pc = "done"

RouteDone == op.name = "route" /\ pc = "done"

\* the resolved reference records the scanner produces on the instance at c,
\* as (from, to, field) triples
RefEdges(c, options) ==
    LET refs == scan_refs_from_ptr(dna, index, ids, c, options)
    IN  IF ~refs.ok THEN {}
        ELSE {[from |-> c, to |-> Unwrap(refs.v[i].resolved).canonical,
               field |-> refs.v[i].field] :
                 i \in {j \in 1..Len(refs.v) : IsSome(refs.v[j].resolved)}}

\* the instances within k resolved references of c
RECURSIVE Within(_, _, _)
Within(c, k, options) ==
    IF k = 0 THEN {c}
    ELSE LET prev == Within(c, k - 1, options)
         IN  prev \cup {e.to : e \in UNION {RefEdges(p, options) : p \in prev}}

\* every instance reachable from c through resolved references
Reachable(c, options) == Within(c, Cardinality(Instances), options)

ReachableEdges(c, options) == UNION {RefEdges(p, options) : p \in Reachable(c, options)}

HasIdName(c) == IsSome(IdIndex_get_by_ptr(ids, c))

GraphRoot == Unwrap(PointerIndex_canonical_ptr(index, dna, op.root_ptr))

RouteFrom == Unwrap(PointerIndex_canonical_ptr(index, dna, op.from_ptr))

RouteTo == Unwrap(PointerIndex_canonical_ptr(index, dna, op.to_ptr))

\* a route that came back with neither a path nor a truncation tag found the
\* target unreachable
RouteNoneMeansUnreachable ==
    (/\ RouteDone /\ result.ok
     /\ IsNone(result.v.path)
     /\ IsNone(result.v.truncated))
    => RouteTo \notin Reachable(RouteFrom, op.options.ref_scan)

C10_RouteShortestPath ==
    /\ (RouteDone /\ result.ok /\ IsSome(result.v.path))
       => LET path == Unwrap(result.v.path)
          IN  IF RouteFrom = RouteTo THEN path = << >>
              ELSE /\ Len(path) >= 1
                   /\ Len(path) <= op.options.max_depth
                   /\ path[1].from = RouteFrom
                   /\ path[Len(path)].to = RouteTo
                   /\ \A i \in 1..(Len(path) - 1) : path[i].to = path[i + 1].from
                   /\ \A i \in 1..Len(path) :
                         path[i] \in RefEdges(path[i].from, op.options.ref_scan)
                   /\ RouteTo \notin Within(RouteFrom, Len(path) - 1, op.options.ref_scan)
    /\ (/\ RouteDone
        /\ IsSome(PointerIndex_canonical_ptr(index, dna, op.from_ptr))
        /\ IsSome(PointerIndex_canonical_ptr(index, dna, op.to_ptr))
        /\ RouteFrom = RouteTo)
       => /\ result.ok
          /\ result.v.path = Some(<< >>)

\* a route of two edges was found
C10_Witness ==
    /\ RouteDone /\ result.ok
    /\ IsSome(result.v.path)
    /\ Len(Unwrap(result.v.path)) = 2

----------------------------------------------------------------------------
(* find_inbound_refs_to_ptr (xref.rs), one action per owner of the outer    *)
(* loop, and scan_refs_from_ptr as a call of its own.                       *)

InboundRef(owner, field) ==
    [from |-> owner.old_ptr, from_type |-> owner.type_name,
     from_id |-> Some(owner.id_name), field |-> field]

\* canonical_ptr_for_target
canonical_ptr_for_target(d, idx, ptr) ==
    Let(PointerIndex_resolve_typed(idx, d, ptr), LAMBDA typed :
        IF IsNone(typed) THEN Err(Error("ChaseUnresolvedPtr", ptr))
        ELSE IF IsNone(Unwrap(typed).element_index)
        THEN Err(Error("ChasePtrOutOfBounds", ptr))
        ELSE Ok(Unwrap(typed).base.entry.start_old
                + Unwrap(Unwrap(typed).element_index) * Unwrap(typed).struct_size))

\* left.from.cmp(&right.from).then_with(|| left.field.cmp(&right.field))
InboundLess(a, b) ==
    \/ a.from < b.from
    \/ a.from = b.from /\ FieldRank(a.field) < FieldRank(b.field)

\* out.sort_by(..): a stable sort
RECURSIVE SortInbound(_)
SortInbound(rs) ==
    IF rs = << >> THEN << >>
    ELSE Let(SortInbound(SubSeq(rs, 1, Len(rs) - 1)), LAMBDA sorted :
             Let(Cardinality({i \in 1..Len(sorted) :
                                 ~InboundLess(rs[Len(rs)], sorted[i])}),
                 LAMBDA k : SubSeq(sorted, 1, k) \o << rs[Len(rs)] >>
                            \o SubSeq(sorted, k + 1, Len(sorted))))

\* a match on the raw pointer value of the record
Xref_matches_raw(record, target_ptr, target_canonical, options) ==
    record.ptr = target_ptr

\* a match that takes every unresolved record when include_unresolved is set
Xref_matches_any_unresolved(record, target_ptr, target_canonical, options) ==
    IF IsSome(record.resolved)
    THEN Unwrap(record.resolved).canonical = target_canonical
    ELSE options.include_unresolved

\* the match on record.resolved
Xref_matches(record, target_ptr, target_canonical, options) ==
    IF IsSome(record.resolved)
    THEN Unwrap(record.resolved).canonical = target_canonical
    ELSE options.include_unresolved /\ record.ptr = target_ptr

RECURSIVE Xref_for_refs(_, _, _, _, _, _, _)

\* for record in refs, from record i on; full tells that max_results was hit
Xref_for_refs(refs, i, owner, target_ptr, target_canonical, options, acc) ==
    IF i > Len(refs) THEN [out |-> acc, full |-> FALSE]
    ELSE IF ~Xref_matches(refs[i], target_ptr, target_canonical, options)
    THEN Xref_for_refs(refs, i + 1, owner, target_ptr, target_canonical, options, acc)
    ELSE Let(Append(acc, InboundRef(owner, refs[i].field)), LAMBDA pushed :
             IF Len(pushed) >= options.max_results
             THEN [out |-> pushed, full |-> TRUE]
             ELSE Xref_for_refs(refs, i + 1, owner, target_ptr, target_canonical,
                                options, pushed))

XrefUnused == <<hops, visited, items, queue, nodes_by_ptr, edges, parents, visited_edges,
                truncated, hit_depth_limit>>

\* find_inbound_refs_to_ptr up to its loop, canonical being what
\* canonical_ptr_for_target returned
XrefStartCanonical(canonical) ==
    IF ~canonical.ok
    THEN /\ result' = canonical
         /\ pc' = "done"
         /\ UNCHANGED current
    ELSE /\ current' = Some(canonical.v)
         /\ pc' = "loop"
         /\ UNCHANGED result

XrefStart ==
    /\ op.name = "xref"
    /\ pc = "start"
    /\ IF op.target_ptr = 0
       THEN /\ result' = Err(Error("ChaseNullPtr", 0))
            /\ pc' = "done"
            /\ UNCHANGED current
       ELSE \E canonical \in {canonical_ptr_for_target(dna, index, op.target_ptr)} :
               XrefStartCanonical(canonical)
    /\ UNCHANGED <<world, op, step_index, out, XrefUnused>>

\* the assignments of the inner loop that ended in st
XrefApply(st) ==
    /\ out' = st.out
    /\ IF st.full
       THEN /\ result' = Ok(SortInbound(st.out))
            /\ pc' = "done"
            /\ UNCHANGED step_index
       ELSE /\ step_index' = step_index + 1
            /\ UNCHANGED <<result, pc>>

\* the body of the outer loop, refs being what scan_refs_from_ptr returned for
\* the owner
XrefScanned(owner, refs) ==
    IF ~refs.ok
    THEN /\ result' = Err(refs.e)
         /\ pc' = "done"
         /\ UNCHANGED <<step_index, out>>
    ELSE \E st \in {Xref_for_refs(refs.v, 1, owner, op.target_ptr, Unwrap(current),
                                  op.options, out)} : XrefApply(st)

\* one iteration of  for owner in &ids.records
XrefOwner ==
    /\ op.name = "xref"
    /\ pc = "loop"
    /\ step_index < Len(ids)
    /\ \E refs \in {scan_refs_from_ptr(dna, index, ids, ids[step_index + 1].old_ptr,
                                       op.options.ref_scan)} :
           XrefScanned(ids[step_index + 1], refs)
    /\ UNCHANGED <<world, op, current, XrefUnused>>

\* the owners ran out: sort and return
XrefFinish ==
    /\ op.name = "xref"
    /\ pc = "loop"
    /\ step_index >= Len(ids)
    /\ result' = Ok(SortInbound(out))
    /\ pc' = "done"
    /\ UNCHANGED <<world, op, current, step_index, out, XrefUnused>>

NextXref == XrefStart \/ XrefOwner \/ XrefFinish

\* scan_refs_from_ptr called on its own
ScanCall ==
    /\ op.name = "scan"
    /\ pc = "start"
    /\ result' = scan_refs_from_ptr(dna, index, ids, op.root_ptr, op.options)
    /\ pc' = "done"
    /\ UNCHANGED <<world, op, locals>>

----------------------------------------------------------------------------
(* SpecTerminates: each of the six traversals called on files whose pointer *)
(* graphs hold self-loops, longer cycles and unresolvable pointers, under   *)
(* every setting of its limits up to MaxLimit.  The call runs on one thread *)
(* that keeps taking steps, hence the weak fairness on the next-step.       *)

\* struct Rec { Rec inner; }: a struct that nests itself by value
RecDna ==
    [names |-> << <<"inner">> >>,
     types |-> <<"Rec">>,
     tlen |-> <<8>>,
     structs |-> << [type_idx |-> 0, fields |-> << [type_idx |-> 0, name_idx |-> 0] >>] >>,
     struct_for_type |-> << Some(0) >>]

\* A points to itself, into B or nowhere; the elements of B point back to A,
\* to themselves, to each other or into the tail of their block
LoopWorlds ==
    { TraversalBlocks([a |-> Slot(na, oa), b0 |-> Slot(nb0, 0), b1 |-> Slot(nb1, 0)]) :
        na \in {AddrA, AddrB, AddrUnmapped}, oa \in {0, AddrB1},
        nb0 \in {AddrA, AddrB + 4, AddrB1}, nb1 \in {0, AddrB1, AddrTail} }

LoopIds ==
    { BfsIds, BfsIds \o << IdRecord(AddrUnmapped, "MEGhost") >> }

LoopLimits == 0..MaxLimit

\* a call about to start on one of the files
LoopFile(records) ==
    /\ dna = NodeDna
    /\ blocks \in LoopWorlds
    /\ index = PointerIndex_build(blocks, "AddressRanges")
    /\ ids \in records
    /\ pc = "start"
    /\ result = None
    /\ IdleLocals

InitLoopWalk ==
    /\ LoopFile({BfsIds})
    /\ \E start_ptr \in {AddrA, AddrB1, AddrUnmapped}, options \in WalkOptions :
          op = [name |-> "walk", start_ptr |-> start_ptr, options |-> options]

InitLoopChase ==
    /\ LoopFile({BfsIds})
    /\ \E path \in {p \in ChasePaths : Len(p) = 3 /\ p[1] = PathField("next")},
          policy \in [max_hops : LoopLimits, max_visited : {MaxLimit},
                      array_default_index : {None},
                      on_null_ptr : StopModes, on_unresolved_ptr : StopModes,
                      on_cycle : StopModes],
          root \in { [ptr |-> AddrA, code |-> None], [ptr |-> 0, code |-> Some("DATA")] } :
          op = [name |-> "chase", root_ptr |-> root.ptr, root_code |-> root.code, path |-> path,
                decode |-> DecodeOptions_default, policy |-> policy]

InitLoopGraph ==
    /\ LoopFile({BfsIds})
    /\ \E root_ptr \in {AddrA, AddrUnmapped},
          options \in [max_depth : LoopLimits, max_nodes : {2, 4096}, max_edges : {1, 16384},
                       ref_scan : {RefScanOptions_default}, id_only : {FALSE},
                       skip_null_ptrs : {FALSE}] :
          op = [name |-> "graph", root_ptr |-> root_ptr, options |-> options]

InitLoopRoute ==
    /\ LoopFile({BfsIds})
    /\ \E ends \in {<<AddrA, AddrB1>>, <<AddrA, AddrC>>, <<AddrUnmapped, AddrA>>},
          options \in [max_depth : LoopLimits, max_nodes : {2, 20000},
                       max_edges : {1, 100000}, ref_scan : {RefScanOptions_default}] :
          op = [name |-> "route", from_ptr |-> ends[1], to_ptr |-> ends[2],
                options |-> options]

InitLoopXref ==
    /\ LoopFile(LoopIds)
    /\ \E target_ptr \in {0, AddrA, AddrB1 + 8, AddrTail, AddrUnmapped},
          options \in [ref_scan : {RefScanOptions_default}, max_results : LoopLimits,
                       include_unresolved : BOOLEAN] :
          op = [name |-> "xref", target_ptr |-> target_ptr, options |-> options]

InitLoopScan ==
    /\ \/ LoopFile({BfsIds})
       \/ /\ dna = RecDna
          /\ blocks = << MkBlock("DATA", 0, AddrA, 1, Zeros(8)) >>
          /\ index = PointerIndex_build(blocks, "AddressRanges")
          /\ ids = << >>
          /\ pc = "start"
          /\ result = None
          /\ IdleLocals
    /\ \E root_ptr \in {0, AddrA, AddrB + 4, AddrTail, AddrUnmapped}, max_depth \in LoopLimits :
          op = [name |-> "scan", root_ptr |-> root_ptr,
                options |-> [max_depth |-> max_depth, max_array_elems |-> 4096]]

InitTerminates ==
    \/ InitLoopWalk
    \/ InitLoopChase
    \/ InitLoopGraph
    \/ InitLoopRoute
    \/ InitLoopXref
    \/ InitLoopScan

NextTerminates == NextWalk \/ NextChase \/ NextGraph \/ NextRoute \/ NextXref \/ ScanCall

SpecTerminates == InitTerminates /\ [][NextTerminates]_vars /\ WF_vars(NextTerminates)

\* C2: on every input, cyclic pointer graphs, self-pointing nodes and
\* unresolvable pointers included, and under every finite setting of the
\* limits, build_graph_from_ptr, find_route_between_ptrs, walk_ptr_chain,
\* find_inbound_refs_to_ptr, scan_refs_from_ptr and chase_from_ptr eventually
\* return.
C2_EveryTraversalReturns == <>(pc = "done")

\* the graph of a file on which A points to itself was built to the end with
\* max_depth at its bound
C2_Witness ==
    /\ GraphDone /\ result.ok
    /\ op.options.max_depth = MaxLimit
    /\ RawNext(AddrA) = AddrA
    /\ \E e \in SeqRange(result.v.edges) : e.from = AddrA /\ e.to = AddrA

----------------------------------------------------------------------------
(* SpecOrder: the BFS traversals on files whose references leave a node in  *)
(* descending target order and reach the Tiny block over two routes of the  *)
(* same length, so that the order of the output depends on the sorts.       *)

OrderWorlds ==
    { TraversalBlocks([a |-> Slot(na, oa), b0 |-> Slot(nb0, ob0), b1 |-> Slot(nb1, ob1)]) :
        na \in {AddrB1, AddrC}, oa \in {AddrB, AddrB1},
        nb0 \in {AddrC, AddrB1}, ob0 \in {0, AddrA},
        nb1 \in {AddrC, AddrB}, ob1 \in {0, AddrC} }

InitOrder ==
    /\ dna = NodeDna
    /\ blocks \in OrderWorlds
    /\ index = PointerIndex_build(blocks, "AddressRanges")
    /\ ids = BfsIds
    /\ \/ \E options \in [max_depth : 1..MaxLimit, max_nodes : {MaxLimit, 4096},
                          max_edges : {MaxLimit, 16384},
                          ref_scan : {RefScanOptions_default},
                          id_only : BOOLEAN, skip_null_ptrs : BOOLEAN] :
             op = [name |-> "graph", root_ptr |-> AddrA, options |-> options]
       \/ \E to_ptr \in {AddrB1, AddrC},
             options \in [max_depth : 1..MaxLimit, max_nodes : {MaxLimit, 20000},
                          max_edges : {MaxLimit, 100000},
                          ref_scan : {RefScanOptions_default}] :
             op = [name |-> "route", from_ptr |-> AddrA, to_ptr |-> to_ptr,
                   options |-> options]
    /\ pc = "start"
    /\ result = None
    /\ IdleLocals

SpecOrder == InitOrder /\ [][NextBfs]_vars

\* the edges of a path as the (target canonical, field) keys the route search
\* sorts by
RouteKey(edge) == [next |-> edge.to, field |-> edge.field]

\* no chain of resolved references that follows path up to edge i - 1, leaves
\* path at edge i over a reference with a smaller key and has the length of
\* path ends in the target
NoEarlierBranch(path, i) ==
    \A e \in RefEdges(path[i].from, op.options.ref_scan) :
        NextEdgeLess(RouteKey(e), RouteKey(path[i]))
            => RouteTo \notin Within(e.to, Len(path) - i, op.options.ref_scan)

\* C11: the outputs do not depend on the iteration order of the hash
\* containers: a graph result is the same for every order in which the node
\* map hands out its nodes, its nodes ascend strictly by canonical pointer and
\* its edges by (from, to, field); a route search takes the edges that leave a
\* node in ascending (target canonical, field) order, so that the returned
\* path is the first of the shortest chains in that order.
C11_Deterministic ==
    /\ (GraphDone /\ result.ok)
       => /\ \A order \in HashMap_into_values(nodes_by_ptr) :
                Graph_result(order, edges, truncated, hit_depth_limit, op.options,
                             Unwrap(current)) = result
          /\ \A i \in 1..(Len(result.v.nodes) - 1) :
                result.v.nodes[i].canonical < result.v.nodes[i + 1].canonical
          /\ \A i \in 1..(Len(result.v.edges) - 1) :
                EdgeLess(result.v.edges[i], result.v.edges[i + 1])
    /\ (RouteDone /\ result.ok /\ IsSome(result.v.path))
       => \A i \in 1..Len(Unwrap(result.v.path)) :
             NoEarlierBranch(Unwrap(result.v.path), i)

\* a graph of three or more nodes was returned, and so was a route of two
\* edges that had a second chain of two edges to choose from
C11_Witness ==
    \/ /\ GraphDone /\ result.ok
       /\ Len(result.v.nodes) >= 3
       /\ Len(result.v.edges) >= 3
    \/ /\ RouteDone /\ result.ok /\ IsSome(result.v.path)
       /\ Len(Unwrap(result.v.path)) = 2
       /\ \E e \in RefEdges(RouteFrom, op.options.ref_scan) :
             /\ e.to # Unwrap(result.v.path)[1].to
             /\ RouteTo \in Within(e.to, 1, op.options.ref_scan)
             /\ RouteTo # e.to

----------------------------------------------------------------------------
(* SpecXref and SpecScan: inbound references and reference scans on files   *)
(* of the schema of the scanner's unit test, extended with a function       *)
(* pointer, a struct array, an int, a [0] array and a second nesting level. *)

\* struct Owner { Nested *arr[2]; Nested nested; void (*cb)(); Nested pair[2];
\*                int v; Nested *gone[0]; }                       (76 bytes)
\* struct Nested { Nested *first; Leaf leaf; }                    (16 bytes)
\* struct Leaf { Nested *deep; }                                  (8 bytes)
OwnerDna ==
    [names |-> << <<"*", "arr", "[", "2", "]">>, <<"nested">>, <<"*", "first">>,
                  <<"(", "*", "cb", ")", "(", ")">>, <<"pair", "[", "2", "]">>, <<"v">>,
                  <<"*", "gone", "[", "0", "]">>, <<"leaf">>, <<"*", "deep">> >>,
     types |-> <<"Owner", "Nested", "Leaf", "int", "void">>,
     tlen |-> <<76, 16, 8, 4, 0>>,
     structs |-> << [type_idx |-> 0,
                     fields |-> << [type_idx |-> 1, name_idx |-> 0],
                                   [type_idx |-> 1, name_idx |-> 1],
                                   [type_idx |-> 4, name_idx |-> 3],
                                   [type_idx |-> 1, name_idx |-> 4],
                                   [type_idx |-> 3, name_idx |-> 5],
                                   [type_idx |-> 1, name_idx |-> 6] >>],
                    [type_idx |-> 1,
                     fields |-> << [type_idx |-> 1, name_idx |-> 2],
                                   [type_idx |-> 2, name_idx |-> 7] >>],
                    [type_idx |-> 2,
                     fields |-> << [type_idx |-> 1, name_idx |-> 8] >>] >>,
     struct_for_type |-> << Some(0), Some(1), Some(2), None, None >>]

\* the size of struct Nested in OwnerDna
NestedSize == OwnerDna.tlen[2]

\* address of element 1 of the Nested block
AddrN1 == AddrB + NestedSize

\* the payload of one Nested element
NestedBytes(first, deep) == LeBytes8(first) \o LeBytes8(deep)

\* the payload of the Owner instance; its pair[0] always points at element 1
OwnerBytes(p) ==
    LeBytes8(p.arr0) \o LeBytes8(p.arr1) \o NestedBytes(p.first, p.deep) \o LeBytes8(p.cb)
    \o NestedBytes(AddrN1, AddrN1) \o NestedBytes(0, 0) \o Zeros(4)

\* the Owner block at 0x1000 and a block of two Nested elements at 0x2000
OwnerBlocks(p) ==
    << MkBlock("SC", 0, AddrA, 1, OwnerBytes(p)),
       MkBlock("DATA", 1, AddrB, 2, NestedBytes(p.b0, 0) \o NestedBytes(p.b1, AddrB)) >>

OwnerWorlds ==
    { OwnerBlocks(p) :
        p \in [arr0 : {AddrB, AddrN1}, arr1 : {0, AddrN1 + 8}, first : {0, AddrN1},
               deep : {AddrN1}, cb : {0, AddrN1}, b0 : {0, AddrN1, AddrUnmapped},
               b1 : {0, AddrN1}] }

\* the ID records of the file: the Owner and element 0 of the Nested block
OwnerIds ==
    << [old_ptr |-> AddrA, code |-> "SC", sdna_nr |-> 0, type_name |-> "Owner",
        id_name |-> "SCOwner"],
       [old_ptr |-> AddrB, code |-> "DATA", sdna_nr |-> 1, type_name |-> "Nested",
        id_name |-> "OBNested"] >>

\* a file of OwnerWorlds with its indices, and no call started
OwnerFile ==
    /\ dna = OwnerDna
    /\ blocks \in OwnerWorlds
    /\ index = PointerIndex_build(blocks, "AddressRanges")
    /\ ids = OwnerIds
    /\ pc = "start"
    /\ result = None
    /\ IdleLocals

\* max_results of the default options
XrefMaxResultsDefault == 1024

InitXref ==
    /\ OwnerFile
    /\ \E target_ptr \in {0, AddrB, AddrN1, AddrN1 + 8, AddrUnmapped},
          options \in [ref_scan : [max_depth : 0..MaxLimit, max_array_elems : {4096}],
                       max_results : (0..MaxLimit) \cup {XrefMaxResultsDefault},
                       include_unresolved : BOOLEAN] :
          op = [name |-> "xref", target_ptr |-> target_ptr, options |-> options]

SpecXref == InitXref /\ [][NextXref]_vars

XrefDone == op.name = "xref" /\ pc = "done"

\* C12: find_inbound_refs_to_ptr returns at most max_results records for
\* every value of max_results, 0 and 1 included, and the records are sorted
\* ascending by (from, field).
C12_XrefBoundedAndSorted ==
    (XrefDone /\ result.ok)
    => /\ Len(result.v) <= op.options.max_results
       /\ \A i \in 1..(Len(result.v) - 1) : ~InboundLess(result.v[i + 1], result.v[i])

\* the canonical pointer of the instance the target pointer lies in
XrefTarget == Unwrap(PointerIndex_canonical_ptr(index, dna, op.target_ptr))

\* what the scanner returns for each owner of the ID index
OwnerScans ==
    [i \in 1..Len(ids) |->
        scan_refs_from_ptr(dna, index, ids, ids[i].old_ptr, op.options.ref_scan)]

\* the places (owner i, record j) of scans whose record resolves to target
InboundPlaces(scans, target) ==
    {p \in UNION {{<<i, j>> : j \in 1..(IF scans[i].ok THEN Len(scans[i].v) ELSE 0)} :
                     i \in 1..Len(ids)} :
        /\ IsSome(scans[p[1]].v[p[2]].resolved)
        /\ Unwrap(scans[p[1]].v[p[2]].resolved).canonical = target}

\* result holds one InboundRef for each of places and nothing else
XrefHoldsExactly(scans, places) ==
    /\ Len(result.v) = Cardinality(places)
    /\ SeqRange(result.v)
         = {[from |-> ids[p[1]].old_ptr, from_type |-> ids[p[1]].type_name,
             from_id |-> Some(ids[p[1]].id_name),
             field |-> scans[p[1]].v[p[2]].field] : p \in places}
    /\ \A i, j \in 1..Len(result.v) : result.v[i] = result.v[j] => i = j

\* C13: when fewer than max_results matches exist, the result holds exactly
\* one InboundRef (from = owner.old_ptr, field) for every ID record owner and
\* every reference record of that owner, nested ones up to ref_scan.max_depth
\* included, whose resolved canonical pointer is the canonical pointer of the
\* target, and no other record; an interior pointer into the target instance
\* gives the records of the instance's canonical pointer.
C13_XrefExactMatches ==
    (XrefDone /\ result.ok)
    => \A scans \in {OwnerScans} :
          \A places \in {InboundPlaces(scans, XrefTarget)} :
             Cardinality(places) < op.options.max_results
                => XrefHoldsExactly(scans, places)

\* an interior pointer into element 1 of the Nested block was looked up and
\* the result names a nested field of the Owner and a field of the other owner
C13_Witness ==
    /\ XrefDone /\ result.ok
    /\ op.target_ptr = AddrN1 + 8
    /\ Len(result.v) < op.options.max_results
    /\ \E r \in SeqRange(result.v) : r.from = AddrA /\ r.field = "nested.leaf.deep"
    /\ \E r \in SeqRange(result.v) : r.from = AddrA /\ r.field = "arr[1]"
    /\ \E r \in SeqRange(result.v) : r.from = AddrB /\ r.field = "first"

----------------------------------------------------------------------------
(* scan_id_blocks (id/mod.rs).  file.blocks() hands out the blocks of the   *)
(* variable blocks in file order.                                           *)

\* detect_id_layout
detect_id_layout(d) ==
    Let(FindToken(d.types, "ID"), LAMBDA at :
        IF at = 0 THEN Err(Error("DnaStructNotFound", 0))
        ELSE IF IsNone(Dna_struct_for_type(d, at - 1)) THEN Err(Error("DnaStructNotFound", 0))
        ELSE Ok([id_sdna |-> Unwrap(Dna_struct_for_type(d, at - 1)),
                 id_size |-> d.tlen[at]]))

\* id_root_flags: one flag per struct of the schema
id_root_flags(d) ==
    [i \in 1..Len(d.structs) |->
        /\ d.structs[i].fields # << >>
        /\ Dna_type_name(d, d.structs[i].fields[1].type_idx) = "ID"
        /\ parse_field_decl(Dna_field_name(d, d.structs[i].fields[1].name_idx)).ident = "id"]

\* item.fields.iter().find(|candidate| candidate.name == name)
FindField(fields, name) ==
    IF \E i \in 1..Len(fields) : fields[i].name = name
    THEN Some(fields[CHOOSE i \in 1..Len(fields) :
                       fields[i].name = name /\ \A j \in 1..(i - 1) : fields[j].name # name])
    ELSE None

\* extract_name_field
extract_name_field(item) ==
    Let(FindField(item.fields, "name"), LAMBDA field :
        IF IsNone(field) THEN Err(Error("IdMissingName", 0))
        ELSE IF Unwrap(field).value.k = "String" THEN Ok(Unwrap(field).value.chars)
        ELSE Err(Error("IdInvalidNameType", 0)))

\* extract_ptr_field
extract_ptr_field(item, name) ==
    Let(FindField(item.fields, name), LAMBDA field :
        IF IsNone(field) THEN None
        ELSE IF Unwrap(field).value.k = "Ptr" THEN Some(Unwrap(field).value.ptr)
        ELSE None)

\* the decode options of scan_id_blocks
IdDecodeOptions ==
    [DecodeOptions_default EXCEPT !.include_padding = TRUE, !.strict_layout = TRUE]

\* the IdRecord of an ID-root block whose ID header decoded to id
IdRecordOf(d, block, id, name) ==
    [old_ptr |-> block.head.old,
     code |-> block.head.code,
     sdna_nr |-> block.head.sdna_nr,
     type_name |-> IF IsSome(Dna_struct_by_sdna(d, block.head.sdna_nr))
                   THEN Dna_type_name(d, Unwrap(Dna_struct_by_sdna(d, block.head.sdna_nr)).type_idx)
                   ELSE "<unknown>",
     id_name |-> name,
     next |-> extract_ptr_field(id, "next"),
     prev |-> extract_ptr_field(id, "prev"),
     lib |-> extract_ptr_field(id, "lib")]

\* out.sort_by_key(|item| item.old_ptr): a stable sort
RECURSIVE SortByOldPtr(_)
SortByOldPtr(rs) ==
    IF rs = << >> THEN << >>
    ELSE Let(SortByOldPtr(SubSeq(rs, 1, Len(rs) - 1)), LAMBDA sorted :
             Let(Cardinality({i \in 1..Len(sorted) : sorted[i].old_ptr <= rs[Len(rs)].old_ptr}),
                 LAMBDA k : SubSeq(sorted, 1, k) \o << rs[Len(rs)] >>
                            \o SubSeq(sorted, k + 1, Len(sorted))))

RECURSIVE IdBlocksFrom(_, _, _, _, _, _)

\* the body of the loop on an ID-root block
IdBlock(d, bs, layout, flags, i, acc) ==
    IF Len(bs[i].payload) < layout.id_size
    THEN Err(Error("DecodePayloadTooSmall", Len(bs[i].payload)))
    ELSE Let(decode_struct_instance(d, layout.id_sdna, Slice(bs[i].payload, 0, layout.id_size),
                                    IdDecodeOptions),
             LAMBDA id :
                IF ~id.ok THEN id
                ELSE Let(extract_name_field(id.v), LAMBDA name :
                         IF ~name.ok THEN name
                         ELSE Let(Append(acc, IdRecordOf(d, bs[i], id.v, name.v)),
                                  LAMBDA pushed :
                                     IdBlocksFrom(d, bs, layout, flags, i + 1, pushed))))

\* for block in file.blocks(), from block i on
IdBlocksFrom(d, bs, layout, flags, i, acc) ==
    IF i > Len(bs) THEN Ok(SortByOldPtr(acc))
    ELSE IF ~(bs[i].head.sdna_nr < Len(flags) /\ flags[bs[i].head.sdna_nr + 1])
    THEN IdBlocksFrom(d, bs, layout, flags, i + 1, acc)
    ELSE IdBlock(d, bs, layout, flags, i, acc)

scan_id_blocks(bs, d) ==
    Let(detect_id_layout(d), LAMBDA layout :
        IF ~layout.ok THEN layout
        ELSE Let(id_root_flags(d), LAMBDA flags :
                 IdBlocksFrom(d, bs, layout.v, flags, 1, << >>)))

\* scan_id_blocks called on the file
IdScanCall ==
    /\ op.name = "ids"
    /\ pc = "start"
    /\ result' = scan_id_blocks(blocks, dna)
    /\ pc' = "done"
    /\ UNCHANGED <<world, op, locals>>

\* struct ID { ID *lib; ID *override_library; ID *library_weak_reference;
\*             char name[2]; }                                    (26 bytes)
\* struct Object { ID id; int v; }                                (30 bytes)
\* struct Library { ID id; char name[2]; }                        (28 bytes)
\* struct Link { Link *next; }                                    (8 bytes)
\* struct Fake { ID ident; }                                      (26 bytes)
IdDna ==
    [names |-> << <<"*", "lib">>, <<"*", "override_library">>,
                  <<"*", "library_weak_reference">>, <<"name", "[", "2", "]">>, <<"id">>,
                  <<"v">>, <<"*", "next">>, <<"ident">> >>,
     types |-> <<"ID", "Object", "Library", "Link", "Fake", "char", "int">>,
     tlen |-> <<26, 30, 28, 8, 26, 1, 4>>,
     structs |-> << [type_idx |-> 0,
                     fields |-> << [type_idx |-> 0, name_idx |-> 0],
                                   [type_idx |-> 0, name_idx |-> 1],
                                   [type_idx |-> 0, name_idx |-> 2],
                                   [type_idx |-> 5, name_idx |-> 3] >>],
                    [type_idx |-> 1,
                     fields |-> << [type_idx |-> 0, name_idx |-> 4],
                                   [type_idx |-> 6, name_idx |-> 5] >>],
                    [type_idx |-> 2,
                     fields |-> << [type_idx |-> 0, name_idx |-> 4],
                                   [type_idx |-> 5, name_idx |-> 3] >>],
                    [type_idx |-> 3,
                     fields |-> << [type_idx |-> 3, name_idx |-> 6] >>],
                    [type_idx |-> 4,
                     fields |-> << [type_idx |-> 0, name_idx |-> 7] >>] >>,
     struct_for_type |-> << Some(0), Some(1), Some(2), Some(3), Some(4), None, None >>]

\* the bytes of an ID header
IdBytes(id) ==
    LeBytes8(id.lib) \o LeBytes8(id.override_library) \o LeBytes8(id.library_weak_reference)
    \o id.name

\* a block of one instance of the struct sdna_nr that starts with the ID
\* header id, filled up to the size of the struct
IdBlock_of(code, sdna_nr, old, id, size) ==
    MkBlock(code, sdna_nr, old, 1, IdBytes(id) \o Zeros(size - 26))

\* an ID header without link pointers
LocalId(name) ==
    [lib |-> 0, override_library |-> 0, library_weak_reference |-> 0, name |-> name]

\* the names "OB", "O" and the empty name, as the bytes of char name[2]
IdNames == { <<79, 66>>, <<79, 0>>, <<0, 0>> }

\* the blocks a file is made of: Object, Library, Link and Fake instances, a
\* block of an SDNA index the schema does not have, and an Object block cut
\* short
IdBlocksAt(old) ==
    { IdBlock_of("OB", 1, old, LocalId(name), 30) : name \in IdNames }
    \cup { IdBlock_of("LI", 2, old, LocalId(name), 28) : name \in IdNames }
    \cup { MkBlock("DATA", 3, old, 1, Zeros(8)),
           IdBlock_of("DATA", 4, old, LocalId(<<79, 66>>), 26),
           IdBlock_of("DATA", 9, old, LocalId(<<79, 66>>), 30),
           MkBlock("OB", 1, old, 1, Zeros(8)) }

\* files of three blocks whose old pointers ascend, descend or neither
IdWorlds ==
    { << b1, b2, b3 >> :
        b1 \in IdBlocksAt(AddrB), b2 \in IdBlocksAt(AddrC), b3 \in IdBlocksAt(AddrA) }
    \cup { << b1, b2 >> : b1 \in IdBlocksAt(AddrA), b2 \in IdBlocksAt(AddrB) }

InitIds ==
    /\ dna \in {IdDna, NodeDna}
    /\ blocks \in IdWorlds
    /\ index = PointerIndex_build(blocks, "AddressRanges")
    /\ ids = << >>
    /\ op = [name |-> "ids"]
    /\ pc = "start"
    /\ result = None
    /\ IdleLocals

SpecIds == InitIds /\ [][IdScanCall]_vars

IdsDone == op.name = "ids" /\ pc = "done"

\* the block's SDNA struct has a first field of type ID whose declarator
\* identifier is id
IsIdRootBlock(block) ==
    /\ block.head.sdna_nr < Len(dna.structs)
    /\ dna.structs[block.head.sdna_nr + 1].fields # << >>
    /\ dna.types[dna.structs[block.head.sdna_nr + 1].fields[1].type_idx + 1] = "ID"
    /\ dna.names[dna.structs[block.head.sdna_nr + 1].fields[1].name_idx + 1] = << "id" >>

\* one record for every ID-root block and none for any other block
OneRecordPerIdRoot ==
    /\ Len(result.v) = Cardinality({i \in 1..Len(blocks) : IsIdRootBlock(blocks[i])})
    /\ \A i \in 1..Len(blocks) :
          IsIdRootBlock(blocks[i])
             <=> \E j \in 1..Len(result.v) :
                    /\ result.v[j].old_ptr = blocks[i].head.old
                    /\ result.v[j].code = blocks[i].head.code
                    /\ result.v[j].sdna_nr = blocks[i].head.sdna_nr

AscendingOldPtr ==
    \A j \in 1..(Len(result.v) - 1) : result.v[j].old_ptr <= result.v[j + 1].old_ptr

\* C14: scan_id_blocks returns exactly one record for every block whose SDNA
\* struct's first field has type ID and declarator identifier id, and no
\* record for any other block; every returned record has a non-empty id_name;
\* and the records are ordered by ascending old_ptr.
C14_IdScanExact ==
    (IdsDone /\ result.ok)
    => /\ OneRecordPerIdRoot
       /\ \A j \in 1..Len(result.v) : result.v[j].id_name # << >>
       /\ AscendingOldPtr

----------------------------------------------------------------------------
(* BHead::parse (bhead.rs) and BlockIter (block.rs). A cursor is the record *)
(* bytes, pos; a block code is the sequence of its four bytes.              *)

\* BlendHeader::LEGACY_FORMAT_VERSION
LEGACY_FORMAT_VERSION == 0

\* the bytes of a number in little-endian order, whatever the file's order
LeOrder(raw, endianness) == IF endianness = "Little" THEN raw ELSE Reverse(raw)

\* u32::from_le_bytes / u64::from_le_bytes (from_be_bytes on the reversed bytes)
from_bytes_unsigned(raw, endianness) == SumLe(LeOrder(raw, endianness), 1)

\* i32::from_le_bytes / i64::from_le_bytes: two's complement
from_bytes_signed(raw, endianness) ==
    Let(LeOrder(raw, endianness), LAMBDA le :
        IF le[Len(le)] >= 128
        THEN 0 - (SumLe([i \in 1..Len(le) |-> 255 - le[i]], 1) + 1)
        ELSE SumLe(le, 1))

\* Cursor::read_exact: the bytes read and the advanced cursor
Cursor_read_exact(cursor, n) ==
    IF n > Cursor_remaining(cursor.bytes, cursor.pos)
    THEN [ok |-> FALSE,
          e |-> [kind |-> "UnexpectedEof", at |-> cursor.pos, need |-> n,
                 rem |-> Cursor_remaining(cursor.bytes, cursor.pos)],
          cursor |-> cursor]
    ELSE [ok |-> TRUE,
          v |-> [raw |-> Slice(cursor.bytes, cursor.pos, n),
                 cursor |-> [cursor EXCEPT !.pos = @ + n]]]

\* let x = r?; F(x)
Try(r, F(_)) == IF r.ok THEN Let(r.v, F) ELSE r

\* Cursor::read_ptr
Cursor_read_ptr(cursor, pointer_size) ==
    IF pointer_size \in {4, 8} THEN Cursor_read_exact(cursor, pointer_size)
    ELSE [ok |-> FALSE, e |-> [kind |-> "UnsupportedPointerSize", header_size |-> pointer_size],
          cursor |-> cursor]

\* BHead::parse_v1
BHead_parse_v1(c, header) ==
    Try(Cursor_read_exact(c, 4), LAMBDA code :
    Try(Cursor_read_exact(code.cursor, 4), LAMBDA sdna_nr :
    Try(Cursor_read_exact(sdna_nr.cursor, 8), LAMBDA old :
    Try(Cursor_read_exact(old.cursor, 8), LAMBDA len :
        IF from_bytes_signed(len.raw, header.endianness) < 0
        THEN [ok |-> FALSE,
              e |-> [kind |-> "NegativeBlockLength",
                     len |-> from_bytes_signed(len.raw, header.endianness)],
              cursor |-> len.cursor]
        ELSE Try(Cursor_read_exact(len.cursor, 8), LAMBDA nr :
                 IF from_bytes_signed(nr.raw, header.endianness) < 0
                 THEN [ok |-> FALSE,
                       e |-> [kind |-> "NegativeBlockCount",
                              nr |-> from_bytes_signed(nr.raw, header.endianness)],
                       cursor |-> nr.cursor]
                 ELSE [ok |-> TRUE,
                       v |-> [head |-> [code |-> code.raw,
                                        sdna_nr |-> from_bytes_unsigned(sdna_nr.raw, header.endianness),
                                        old |-> from_bytes_unsigned(old.raw, header.endianness),
                                        len |-> from_bytes_signed(len.raw, header.endianness),
                                        nr |-> from_bytes_signed(nr.raw, header.endianness)],
                              cursor |-> nr.cursor]])))))

\* BHead::parse_legacy
BHead_parse_legacy(c, header) ==
    Try(Cursor_read_exact(c, 4), LAMBDA code :
    Try(Cursor_read_exact(code.cursor, 4), LAMBDA len :
        IF from_bytes_signed(len.raw, header.endianness) < 0
        THEN [ok |-> FALSE,
              e |-> [kind |-> "NegativeBlockLength",
                     len |-> from_bytes_signed(len.raw, header.endianness)],
              cursor |-> len.cursor]
        ELSE Try(Cursor_read_ptr(len.cursor, header.pointer_size), LAMBDA old :
             Try(Cursor_read_exact(old.cursor, 4), LAMBDA sdna_nr :
             Try(Cursor_read_exact(sdna_nr.cursor, 4), LAMBDA nr :
                 IF from_bytes_signed(nr.raw, header.endianness) < 0
                 THEN [ok |-> FALSE,
                       e |-> [kind |-> "NegativeBlockCount",
                              nr |-> from_bytes_signed(nr.raw, header.endianness)],
                       cursor |-> nr.cursor]
                 ELSE [ok |-> TRUE,
                       v |-> [head |-> [code |-> code.raw,
                                        sdna_nr |-> from_bytes_unsigned(sdna_nr.raw, header.endianness),
                                        old |-> from_bytes_unsigned(old.raw, header.endianness),
                                        len |-> from_bytes_signed(len.raw, header.endianness),
                                        nr |-> from_bytes_signed(nr.raw, header.endianness)],
                              cursor |-> nr.cursor]])))))

\* BHead::parse
BHead_parse(c, header) ==
    IF header.format_version = LEGACY_FORMAT_VERSION THEN BHead_parse_legacy(c, header)
    ELSE BHead_parse_v1(c, header)

\* a code that is never ENDB
BHead_is_endb_never(head) == FALSE

\* BHead::is_endb: b"ENDB"
BHead_is_endb(head) == head.code = << 69, 78, 68, 66 >>

\* BlockIter::new: bytes.get(offset..).unwrap_or(&[])
BlockIter_new(bytes, offset, header) ==
    [cursor |-> [bytes |-> IF offset <= Len(bytes) THEN Slice(bytes, offset, Len(bytes) - offset)
                           ELSE << >>,
                 pos |-> 0],
     offset_base |-> offset,
     header |-> header,
     done |-> FALSE]

\* next, once the header is parsed; usize is 64 bits wide, so
\* usize::try_from(head.len) succeeds
BlockIter_payload(it, file_offset, parsed) ==
    IF parsed.head.len > Cursor_remaining(parsed.cursor.bytes, parsed.cursor.pos)
    THEN [iter |-> [it EXCEPT !.cursor = parsed.cursor, !.done = TRUE],
          ret |-> Some(Err([kind |-> "BlockLenOutOfRange", at |-> file_offset,
                            len |-> parsed.head.len,
                            rem |-> Cursor_remaining(parsed.cursor.bytes, parsed.cursor.pos)]))]
    ELSE Let(Cursor_read_exact(parsed.cursor, parsed.head.len), LAMBDA payload :
             IF ~payload.ok
             THEN [iter |-> [it EXCEPT !.cursor = payload.cursor, !.done = TRUE],
                   ret |-> Some(Err(payload.e))]
             ELSE [iter |-> [it EXCEPT !.cursor = payload.v.cursor,
                                       !.done = BHead_is_endb(parsed.head)],
                   ret |-> Some(Ok([head |-> parsed.head, payload |-> payload.v.raw,
                                    file_offset |-> file_offset]))])

\* BlockIter::next: the iterator afterwards and the value returned
BlockIter_next(it) ==
    IF it.done THEN [iter |-> it, ret |-> None]
    ELSE IF Cursor_remaining(it.cursor.bytes, it.cursor.pos) = 0
    THEN [iter |-> [it EXCEPT !.done = TRUE], ret |-> None]
    ELSE Let(BHead_parse(it.cursor, it.header), LAMBDA head :
             IF ~head.ok
             THEN [iter |-> [it EXCEPT !.cursor = head.cursor, !.done = TRUE],
                   ret |-> Some(Err(head.e))]
             ELSE BlockIter_payload(it, it.offset_base + it.cursor.pos, head.v))

\* Most calls of next made on one iterator.
MaxCalls == 6

\* BlockIter::new(bytes, offset, header)
BlockIterNew ==
    /\ op.name = "blocks"
    /\ pc = "start"
    /\ iter' = BlockIter_new(op.bytes, op.offset, op.header)
    /\ pc' = "loop"
    /\ UNCHANGED <<dna, blocks, index, ids, op, result, locals>>

\* one call of next; out collects the returned values
BlockIterNext ==
    /\ op.name = "blocks"
    /\ pc = "loop"
    /\ Len(out) < MaxCalls
    /\ \E r \in {BlockIter_next(iter)} :
          /\ iter' = r.iter
          /\ out' = Append(out, r.ret)
    /\ UNCHANGED <<dna, blocks, index, ids, op, pc, result, current, step_index, hops,
                   visited, items, queue, nodes_by_ptr, edges, parents, visited_edges,
                   truncated, hit_depth_limit>>

NextBlocks == BlockIterNew \/ BlockIterNext

\* to_le_bytes / to_be_bytes of a value of n bytes; negative values in two's
\* complement
ToBytes(v, n, endianness) ==
    LeOrder([i \in 1..n |->
                IF v >= 0 THEN IF i <= 4 THEN (v \div Pow256(i - 1)) % 256 ELSE 0
                ELSE IF i <= 4 THEN 255 - ((((0 - v) - 1) \div Pow256(i - 1)) % 256) ELSE 255],
            endianness)

\* the bytes of a block header as BHead::parse reads them
BHeadBytes(header, code, sdna_nr, old, len, nr) ==
    IF header.format_version = LEGACY_FORMAT_VERSION
    THEN code \o ToBytes(len, 4, header.endianness)
         \o ToBytes(old, header.pointer_size, header.endianness)
         \o ToBytes(sdna_nr, 4, header.endianness) \o ToBytes(nr, 4, header.endianness)
    ELSE code \o ToBytes(sdna_nr, 4, header.endianness) \o ToBytes(old, 8, header.endianness)
         \o ToBytes(len, 8, header.endianness) \o ToBytes(nr, 8, header.endianness)

\* the size of a block header
BHeadSize(header) ==
    IF header.format_version = LEGACY_FORMAT_VERSION THEN 12 + header.pointer_size + 4 ELSE 32

\* b"DATA" and b"ENDB"
CodeDATA == << 68, 65, 84, 65 >>
CodeENDB == << 69, 78, 68, 66 >>

\* the records a file is made of: blocks with and without payload, ENDB
\* blocks, and headers with a negative len, a negative nr, or a len larger
\* than anything that follows
BlockRecords(header) ==
    { BHeadBytes(header, CodeDATA, 1, 4096, 0, 1),
      BHeadBytes(header, CodeDATA, 2, 8192, 4, 2) \o << 1, 2, 3, 4 >>,
      BHeadBytes(header, CodeENDB, 0, 0, 0, 0),
      BHeadBytes(header, CodeENDB, 0, 0, 2, 1) \o << 9, 9 >>,
      BHeadBytes(header, CodeDATA, 1, 4096, 0 - 1, 1),
      BHeadBytes(header, CodeDATA, 1, 4096, 0, 0 - 2),
      BHeadBytes(header, CodeDATA, 1, 4096, 200, 1) \o << 7, 7 >> }

\* the block headers of the format versions, pointer sizes and byte orders
BlendHeaders ==
    { [format_version |-> v, pointer_size |-> p, endianness |-> e] :
        v \in {LEGACY_FORMAT_VERSION, 1}, p \in {4, 8}, e \in {"Little", "Big"} }
    \ { [format_version |-> 1, pointer_size |-> 4, endianness |-> e] : e \in {"Little", "Big"} }

\* files: offset bytes of file header, up to three records, cut short by
\* cut bytes
BlockFiles(header, offset) ==
    { SubSeq(body, 1, Len(body) - cut) :
        body \in { Zeros(offset) \o r1 : r1 \in BlockRecords(header) }
                 \cup { Zeros(offset) \o r1 \o r2 : r1, r2 \in BlockRecords(header) }
                 \cup { Zeros(offset) \o r1 \o r2 \o r3 :
                          r1, r2, r3 \in BlockRecords(header) },
        cut \in {0, 1, 6} }

InitBlocks ==
    /\ dna = NodeDna
    /\ blocks = << >>
    /\ index = PointerIndex_build(<< >>, "AddressRanges")
    /\ ids = << >>
    /\ \E header \in BlendHeaders, offset \in {0, 12} :
          \E bytes \in BlockFiles(header, offset) :
             \E at \in {offset, Len(bytes) + 1} :
                op = [name |-> "blocks", bytes |-> bytes, offset |-> at, header |-> header]
    /\ pc = "start"
    /\ result = None
    /\ IdleLocals

SpecBlocks == InitBlocks /\ [][NextBlocks]_vars

IsOkBlock(ret) == IsSome(ret) /\ Unwrap(ret).ok
IsErrBlock(ret) == IsSome(ret) /\ ~Unwrap(ret).ok

\* the yielded block i starts at the start of the blocks (i = 1) or right
\* after the payload of the block yielded before it, and its payload is the
\* len bytes of the file that follow its header
InFileOrder(i) ==
    LET b == Unwrap(out[i]).v IN
    /\ b.file_offset = IF i = 1 THEN op.offset
                       ELSE Unwrap(out[i - 1]).v.file_offset + BHeadSize(op.header)
                            + Len(Unwrap(out[i - 1]).v.payload)
    /\ i > 1 => b.file_offset > Unwrap(out[i - 1]).v.file_offset
    /\ Len(b.payload) = b.head.len
    /\ b.file_offset + BHeadSize(op.header) + b.head.len <= Len(op.bytes)
    /\ b.payload = Slice(op.bytes, b.file_offset + BHeadSize(op.header), b.head.len)
    /\ b.head.code = Slice(op.bytes, b.file_offset, 4)

\* C15: BlockIter yields blocks in file order with strictly increasing
\* file_offset, each payload lying inside the file bytes; it stops right
\* after the first block whose code is ENDB, and after ENDB or any error
\* every later call of next returns None, so at most one error is yielded
\* and nothing follows it.
C15_BlockIterOrderAndStop ==
    op.name = "blocks" =>
       /\ \A i \in 1..Len(out) :
             /\ IsOkBlock(out[i]) => (\A j \in 1..(i - 1) : IsOkBlock(out[j])) /\ InFileOrder(i)
             /\ (IsErrBlock(out[i]) \/ (IsOkBlock(out[i]) /\ Unwrap(out[i]).v.head.code = CodeENDB)
                 \/ IsNone(out[i]))
                   => \A j \in (i + 1)..Len(out) : out[j] = None
       /\ Cardinality({i \in 1..Len(out) : IsErrBlock(out[i])}) <= 1

\* a block, then ENDB with a record left behind it, then None twice
C15_Witness ==
    /\ op.name = "blocks"
    /\ Len(out) >= 4
    /\ IsOkBlock(out[1]) /\ IsOkBlock(out[2])
    /\ Unwrap(out[1]).v.payload = << 1, 2, 3, 4 >>
    /\ Unwrap(out[2]).v.head.code = CodeENDB
    /\ out[3] = None /\ out[4] = None
    /\ Cursor_remaining(iter.cursor.bytes, iter.cursor.pos) > 0

----------------------------------------------------------------------------
(* Dna::parse (dna.rs). Names and type names are the sequences of their     *)
(* bytes.                                                                   *)

\* a successful read: the value and the advanced cursor
Read(v, cursor) == [ok |-> TRUE, v |-> [raw |-> v, cursor |-> cursor]]

\* Cursor::read_cstring_bytes
Cursor_read_cstring_bytes(c) ==
    IF \A i \in (c.pos + 1)..Len(c.bytes) : c.bytes[i] # 0
    THEN [ok |-> FALSE,
          e |-> [kind |-> "UnexpectedEof", at |-> c.pos, need |-> 1,
                 rem |-> Cursor_remaining(c.bytes, c.pos)],
          cursor |-> c]
    ELSE Let(CHOOSE i \in (c.pos + 1)..Len(c.bytes) :
                c.bytes[i] = 0 /\ \A j \in (c.pos + 1)..(i - 1) : c.bytes[j] # 0,
             LAMBDA nul : Read(SubSeq(c.bytes, c.pos + 1, nul - 1), [c EXCEPT !.pos = nul]))

\* Cursor::align4
Cursor_align4(c) == Cursor_read_exact(c, ((c.pos + 3) \div 4) * 4 - c.pos)

\* expect_tag
expect_tag(c, expected) ==
    Try(Cursor_read_exact(c, 4), LAMBDA got :
        IF got.raw # expected
        THEN [ok |-> FALSE,
              e |-> [kind |-> "DnaBadTag", expected |-> expected, got |-> got.raw, at |-> c.pos],
              cursor |-> got.cursor]
        ELSE Read(got.raw, got.cursor))

\* check_index
check_index(kind, idx, len) ==
    IF idx >= len
    THEN [ok |-> FALSE,
          e |-> [kind |-> "DnaIndexOutOfRange", which |-> kind, idx |-> idx,
                 max |-> IF len = 0 THEN 0 ELSE len - 1]]
    ELSE [ok |-> TRUE, v |-> idx]

\* cursor.read_u32_le / read_u16_le: the number and the advanced cursor
Cursor_read_le(c, n) ==
    Try(Cursor_read_exact(c, n), LAMBDA r : Read(from_bytes_unsigned(r.raw, "Little"), r.cursor))

\* for _ in 0..count { out.push(read_lossy_string(cursor)?) }
RECURSIVE ReadStrings(_, _, _)
ReadStrings(c, count, acc) ==
    IF count = 0 THEN Read(acc, c)
    ELSE Try(Cursor_read_cstring_bytes(c), LAMBDA s :
             ReadStrings(s.cursor, count - 1, Append(acc, s.raw)))

\* for _ in 0..type_count { tlen.push(cursor.read_u16_le()?) }
RECURSIVE ReadTlen(_, _, _)
ReadTlen(c, count, acc) ==
    IF count = 0 THEN Read(acc, c)
    ELSE Try(Cursor_read_le(c, 2), LAMBDA t : ReadTlen(t.cursor, count - 1, Append(acc, t.raw)))

\* the fields of one struct
RECURSIVE ReadFields(_, _, _, _, _)
ReadFields(c, count, acc, ntypes, nnames) ==
    IF count = 0 THEN Read(acc, c)
    ELSE Try(Cursor_read_le(c, 2), LAMBDA field_type_idx :
         Try(Cursor_read_le(field_type_idx.cursor, 2), LAMBDA field_name_idx :
             IF ~check_index("field.type_idx", field_type_idx.raw, ntypes).ok
             THEN check_index("field.type_idx", field_type_idx.raw, ntypes)
             ELSE IF ~check_index("field.name_idx", field_name_idx.raw, nnames).ok
             THEN check_index("field.name_idx", field_name_idx.raw, nnames)
             ELSE ReadFields(field_name_idx.cursor, count - 1,
                             Append(acc, [type_idx |-> field_type_idx.raw,
                                          name_idx |-> field_name_idx.raw]),
                             ntypes, nnames)))

\* for _ in 0..struct_count
RECURSIVE ReadStructs(_, _, _, _, _)
ReadStructs(c, count, acc, ntypes, nnames) ==
    IF count = 0 THEN Read(acc, c)
    ELSE Try(Cursor_read_le(c, 2), LAMBDA type_idx :
             IF ~check_index("struct.type_idx", type_idx.raw, ntypes).ok
             THEN check_index("struct.type_idx", type_idx.raw, ntypes)
             ELSE Try(Cursor_read_le(type_idx.cursor, 2), LAMBDA field_count :
                  Try(ReadFields(field_count.cursor, field_count.raw, << >>, ntypes, nnames),
                      LAMBDA fields :
                         ReadStructs(fields.cursor, count - 1,
                                     Append(acc, [type_idx |-> type_idx.raw,
                                                  fields |-> fields.raw]),
                                     ntypes, nnames))))

\* a slot that is never seen as taken
Dna_slot_free(slot) == FALSE

\* if let Some(first) = *slot
Dna_slot_taken(slot) == IsSome(slot)

\* for (idx, item) in structs.iter().enumerate(), from struct idx on
RECURSIVE FillStructForType(_, _, _)
FillStructForType(structs, idx, struct_for_type) ==
    IF idx >= Len(structs) THEN [ok |-> TRUE, v |-> struct_for_type]
    ELSE IF Dna_slot_taken(struct_for_type[structs[idx + 1].type_idx + 1])
    THEN [ok |-> FALSE,
          e |-> [kind |-> "DnaDuplicateStructType", type_idx |-> structs[idx + 1].type_idx,
                 first |-> Unwrap(struct_for_type[structs[idx + 1].type_idx + 1]),
                 second |-> idx]]
    ELSE FillStructForType(structs, idx + 1,
                           [struct_for_type EXCEPT ![structs[idx + 1].type_idx + 1] = Some(idx)])

\* the tags b"SDNA", b"NAME", b"TYPE", b"TLEN", b"STRC"
TagSDNA == << 83, 68, 78, 65 >>
TagNAME == << 78, 65, 77, 69 >>
TagTYPE == << 84, 89, 80, 69 >>
TagTLEN == << 84, 76, 69, 78 >>
TagSTRC == << 83, 84, 82, 67 >>

\* Dna::parse from the STRC tag on
Dna_parse_structs(c, names, types, tlen) ==
    Try(expect_tag(c, TagSTRC), LAMBDA strc :
    Try(Cursor_read_le(strc.cursor, 4), LAMBDA struct_count :
    Try(ReadStructs(struct_count.cursor, struct_count.raw, << >>, Len(types), Len(names)),
        LAMBDA structs :
           Try(FillStructForType(structs.raw, 0, [i \in 1..Len(types) |-> None]),
               LAMBDA struct_for_type :
                  Ok([names |-> names, types |-> types, tlen |-> tlen,
                      structs |-> structs.raw, struct_for_type |-> struct_for_type]))))) 

\* Dna::parse from the TYPE tag on
Dna_parse_types(c, names) ==
    Try(expect_tag(c, TagTYPE), LAMBDA type :
    Try(Cursor_read_le(type.cursor, 4), LAMBDA type_count :
    Try(ReadStrings(type_count.cursor, type_count.raw, << >>), LAMBDA types :
    Try(Cursor_align4(types.cursor), LAMBDA aligned :
    Try(expect_tag(aligned.cursor, TagTLEN), LAMBDA tlen_tag :
    Try(ReadTlen(tlen_tag.cursor, type_count.raw, << >>), LAMBDA tlen :
    Try(Cursor_align4(tlen.cursor), LAMBDA realigned :
        Dna_parse_structs(realigned.cursor, names, types.raw, tlen.raw))))))))

\* Dna::parse
Dna_parse(payload) ==
    Let(Try(expect_tag([bytes |-> payload, pos |-> 0], TagSDNA), LAMBDA sdna :
        Try(expect_tag(sdna.cursor, TagNAME), LAMBDA name :
        Try(Cursor_read_le(name.cursor, 4), LAMBDA name_count :
        Try(ReadStrings(name_count.cursor, name_count.raw, << >>), LAMBDA names :
        Try(Cursor_align4(names.cursor), LAMBDA aligned :
            Dna_parse_types(aligned.cursor, names.raw)))))),
        LAMBDA r : IF r.ok THEN Ok(r.v) ELSE Err(r.e))

\* Dna::parse called on a DNA1 payload
DnaParseCall ==
    /\ op.name = "dna"
    /\ pc = "start"
    /\ result' = Dna_parse(op.payload)
    /\ pc' = "done"
    /\ UNCHANGED <<world, op, locals>>


\* the concatenation of a sequence of byte strings
RECURSIVE Flat(_)
Flat(ss) == IF ss = << >> THEN << >> ELSE ss[1] \o Flat(Tail(ss))

\* bytes filled with zeros up to the next multiple of four
Pad4(bytes) == bytes \o Zeros((4 - (Len(bytes) % 4)) % 4)

\* the DNA1 payload that spells out the tables of desc
DnaPayload(desc) ==
    Pad4(TagSDNA \o TagNAME \o ToBytes(Len(desc.names), 4, "Little")
         \o Flat([i \in 1..Len(desc.names) |-> desc.names[i] \o << 0 >>]))
    \o Pad4(TagTYPE \o ToBytes(Len(desc.types), 4, "Little")
            \o Flat([i \in 1..Len(desc.types) |-> desc.types[i] \o << 0 >>]))
    \o Pad4(TagTLEN \o Flat([i \in 1..Len(desc.tlen) |-> ToBytes(desc.tlen[i], 2, "Little")]))
    \o TagSTRC \o ToBytes(Len(desc.structs), 4, "Little")
    \o Flat([i \in 1..Len(desc.structs) |->
                ToBytes(desc.structs[i].type_idx, 2, "Little")
                \o ToBytes(Len(desc.structs[i].fields), 2, "Little")
                \o Flat([k \in 1..Len(desc.structs[i].fields) |->
                            ToBytes(desc.structs[i].fields[k].type_idx, 2, "Little")
                            \o ToBytes(desc.structs[i].fields[k].name_idx, 2, "Little")])])

\* field and struct declarations whose indices may be out of range
DnaFieldDescs == { [type_idx |-> t, name_idx |-> n] : t \in {0, 3}, n \in {0, 1, 2} }
DnaStructDescs ==
    { [type_idx |-> t, fields |-> fs] :
        t \in 0..3,
        fs \in {<< >>} \cup { << f >> : f \in DnaFieldDescs }
              \cup { << [type_idx |-> 1, name_idx |-> 0], f >> : f \in DnaFieldDescs } }

\* tables of one or two names ("a"; "ab", "c"), two or three types ("T", "U";
\* "T", "Uv", "W"), a TLEN entry per type or one too few, and up to two structs
DnaDescs ==
    { [names |-> names, types |-> types, tlen |-> tlen, structs |-> structs] :
        names \in { << <<97>> >>, << <<97, 98>>, <<99>> >> },
        types \in { << <<84>>, <<85>> >>, << <<84>>, <<85, 118>>, <<87>> >> },
        tlen \in { <<4, 8, 12>>, <<4, 8>> },
        structs \in {<< >>} \cup { << s >> : s \in DnaStructDescs }
                   \cup { << s1, s2 >> : s1, s2 \in DnaStructDescs } }

InitDna ==
    /\ dna = NodeDna
    /\ blocks = << >>
    /\ index = PointerIndex_build(<< >>, "AddressRanges")
    /\ ids = << >>
    /\ \E desc \in DnaDescs, cut \in {0, 1} :
          op = [name |-> "dna", desc |-> desc,
                payload |-> SubSeq(DnaPayload(desc), 1, Len(DnaPayload(desc)) - cut)]
    /\ pc = "start"
    /\ result = None
    /\ IdleLocals

SpecDna == InitDna /\ [][DnaParseCall]_vars

DnaDone == op.name = "dna" /\ pc = "done"

\* the indices of d are in range, its tables have one entry per type, and
\* struct_for_type leads from every struct's type back to that struct
DnaWellFormed(d) ==
    /\ \A i \in 1..Len(d.structs) :
          /\ d.structs[i].type_idx < Len(d.types)
          /\ \A k \in 1..Len(d.structs[i].fields) :
                /\ d.structs[i].fields[k].type_idx < Len(d.types)
                /\ d.structs[i].fields[k].name_idx < Len(d.names)
    /\ Len(d.tlen) = Len(d.types)
    /\ Len(d.struct_for_type) = Len(d.types)
    /\ \A i \in 1..Len(d.structs) : d.struct_for_type[d.structs[i].type_idx + 1] = Some(i - 1)
    /\ \A i, j \in 1..Len(d.structs) : d.structs[i].type_idx = d.structs[j].type_idx => i = j

\* the tables of desc hold an out-of-range index or two structs of one type
DescRejected(desc) ==
    \/ \E i \in 1..Len(desc.structs) :
          \/ desc.structs[i].type_idx >= Len(desc.types)
          \/ \E k \in 1..Len(desc.structs[i].fields) :
                \/ desc.structs[i].fields[k].type_idx >= Len(desc.types)
                \/ desc.structs[i].fields[k].name_idx >= Len(desc.names)
    \/ \E i, j \in 1..Len(desc.structs) :
          i # j /\ desc.structs[i].type_idx = desc.structs[j].type_idx

\* C16: every Dna returned by Dna::parse has each struct's and field's
\* type_idx < |types|, each field's name_idx < |names|, |tlen| = |types| =
\* |struct_for_type|, and struct_for_type[structs[i].type_idx] = Some(i) for
\* every struct i, so no two structs share a type_idx; a payload with an
\* out-of-range index, or with two structs for the same type, is rejected
\* with an error instead of producing a Dna.
C16_DnaParseValidates ==
    DnaDone =>
       /\ result.ok => DnaWellFormed(result.v)
       /\ DescRejected(op.desc) => ~result.ok

\* a payload of three types and two structs with fields, parsed into a Dna
C16_Witness ==
    /\ DnaDone
    /\ result.ok
    /\ Len(result.v.types) = 3
    /\ Len(result.v.structs) = 2
    /\ Len(result.v.structs[2].fields) = 2
    /\ result.v.struct_for_type = << Some(1), None, Some(0) >>

----------------------------------------------------------------------------
(* The null and unresolved policies and the hop limit of the chase.         *)

\* the pointer the chase stopped on, when it ended on a dereference
ChaseEndedOnPtr == ChaseDone /\ IsSome(current) /\ Unwrap(current).k = "Ptr"

\* index.resolve_typed finds no entry, or no element, for ptr
ChaseUnresolvable(ptr) ==
    \/ IsNone(PointerIndex_resolve_typed(index, dna, ptr))
    \/ IsNone(Unwrap(PointerIndex_resolve_typed(index, dna, ptr)).element_index)

ChaseStoppedWith(kind) ==
    /\ result.ok
    /\ IsSome(result.v.stop)
    /\ Unwrap(result.v.stop).reason.kind = kind

\* C17: in chase_from_ptr (root_code = None) a pointer to dereference that is 0 gives a NullPtr
\* stop under on_null_ptr = Stop and a ChaseNullPtr error under Error; one that
\* is non-zero but unresolvable gives an UnresolvedPtr stop under
\* on_unresolved_ptr = Stop and an error under Error; a condition whose mode
\* is Stop is never turned into an error, whatever the number of hops made.
C17_ChaseNullUnresolvedPolicy ==
    (ChaseEndedOnPtr /\ IsNone(op.root_code)) =>
       IF Unwrap(current).ptr = 0
       THEN IF op.policy.on_null_ptr = "Stop" THEN ChaseStoppedWith("NullPtr")
            ELSE ~result.ok /\ result.e.kind = "ChaseNullPtr"
       ELSE ChaseUnresolvable(Unwrap(current).ptr) =>
               IF op.policy.on_unresolved_ptr = "Stop" THEN ChaseStoppedWith("UnresolvedPtr")
               ELSE ~result.ok

\* deref_pointer would hand back a struct if the hop limit were one higher
ChaseNeedsOneMoreHop ==
    /\ ChaseEndedOnPtr
    /\ Len(hops) = op.policy.max_hops
    /\ deref_pointer(dna, index, Unwrap(current).ptr,
                     [decode |-> op.decode,
                      policy |-> [op.policy EXCEPT !.max_hops = @ + 1]],
                     hops, visited).tag = "Struct"

\* C18: every ChaseResult has at most max_hops hops, and a chase that needs
\* one more successful dereference after max_hops hops returns the error
\* ChaseHopLimitExceeded, whatever the Stop/Error modes of the policy.
C18_ChaseHopLimit ==
    /\ op.name = "chase" => Len(hops) <= op.policy.max_hops
    /\ (ChaseDone /\ result.ok) => Len(result.v.hops) <= op.policy.max_hops
    /\ ChaseNeedsOneMoreHop => ~result.ok /\ result.e.kind = "ChaseHopLimitExceeded"

\* two hops made with max_hops = 2, a third pointer that resolves, and every
\* mode of the policy Stop
C18_Witness ==
    /\ ChaseNeedsOneMoreHop
    /\ Len(hops) = 2
    /\ op.policy.on_null_ptr = "Stop"
    /\ op.policy.on_unresolved_ptr = "Stop"
    /\ op.policy.on_cycle = "Stop"
    /\ ~result.ok

----------------------------------------------------------------------------
(* SpecScan: scan_refs_from_ptr on the Owner and Nested instances.          *)

InitScan ==
    /\ OwnerFile
    /\ \E root_ptr \in {0, AddrA, AddrB, AddrN1, AddrN1 + 8, AddrUnmapped},
          options \in [max_depth : 0..MaxLimit, max_array_elems : {1, 4096}] :
          op = [name |-> "scan", root_ptr |-> root_ptr, options |-> options]

SpecScan == InitScan /\ [][ScanCall]_vars

ScanDone == op.name = "scan" /\ pc = "done"

\* the pointer fields of struct Owner { Nested *arr[2]; Nested nested;
\* void (*cb)(); Nested pair[2]; int v; Nested *gone[0]; } in declaration
\* order, with the byte offset of each element; nested is Nested { Nested
\* *first; Leaf leaf; } and leaf is Leaf { Nested *deep; }
OwnerPointerFields(max_depth) ==
    << << "arr[0]", 0 >>, << "arr[1]", 8 >> >>
    \o (IF max_depth > 0 THEN << << "nested.first", 16 >> >> ELSE << >>)
    \o (IF max_depth > 1 THEN << << "nested.leaf.deep", 24 >> >> ELSE << >>)
    \o << << "cb", 32 >> >>

\* the pointer fields of struct Nested
NestedPointerFields(max_depth) ==
    << << "first", 0 >> >>
    \o (IF max_depth > 0 THEN << << "leaf.deep", 8 >> >> ELSE << >>)

\* the instance root_ptr points into: its pointer fields and its bytes
ScanOwnerFields ==
    IF op.root_ptr = AddrA THEN OwnerPointerFields(op.options.max_depth)
    ELSE NestedPointerFields(op.options.max_depth)

ScanOwnerBytes ==
    IF op.root_ptr = AddrA THEN blocks[1].payload
    ELSE IF op.root_ptr = AddrB THEN SubSeq(blocks[2].payload, 1, NestedSize)
    ELSE SubSeq(blocks[2].payload, NestedSize + 1, 2 * NestedSize)

\* C19: scan_refs_from_ptr emits, in field declaration order, one record per
\* inline-array element of every pointer or function-pointer field of the
\* owner instance, named name for a count of 1 and name[i] otherwise, with the
\* raw pointer read at that element's byte offset; with max_depth > 0 it
\* descends into every nested non-pointer struct field of count 1 and emits
\* that struct's pointer fields prefixed with name.; fields declared [0],
\* nested struct arrays and non-struct fields produce no record.
C19_ScanEmitsPointerFields ==
    (ScanDone /\ op.root_ptr \in {AddrA, AddrB, AddrN1, AddrN1 + 8}
              /\ op.options.max_array_elems >= 2) =>
       /\ result.ok
       /\ Len(result.v) = Len(ScanOwnerFields)
       /\ \A i \in 1..Len(ScanOwnerFields) :
             /\ result.v[i].field = ScanOwnerFields[i][1]
             /\ result.v[i].ptr = SumLe(SubSeq(ScanOwnerBytes, ScanOwnerFields[i][2] + 1,
                                               ScanOwnerFields[i][2] + 8), 1)

\* the Owner scanned at depth 1: arr[0], arr[1], nested.first, cb, with
\* different pointers in arr[0] and arr[1]
C19_Witness ==
    /\ ScanDone
    /\ op.root_ptr = AddrA
    /\ op.options.max_depth = 1
    /\ result.ok
    /\ Len(result.v) = 4
    /\ result.v[1].ptr = AddrB
    /\ result.v[2].ptr = AddrN1 + 8
    /\ result.v[3].field = "nested.first"
    /\ result.v[3].ptr = AddrN1

----------------------------------------------------------------------------
(* Library records and link provenance (liblink/mod.rs). The block code     *)
(* "LI" stands for the bytes LI\0\0.                                         *)

\* decode_ptr_instance: the instance ptr points into, decoded, with its
\* canonical pointer
decode_ptr_instance(d, idx, ptr, opt) ==
    IF ptr = 0 THEN Err(Error("ChaseNullPtr", 0))
    ELSE Let(PointerIndex_resolve_typed(idx, d, ptr), LAMBDA typed :
             IF IsNone(typed) THEN Err(Error("ChaseUnresolvedPtr", ptr))
             ELSE IF IsNone(Unwrap(typed).element_index)
             THEN Err(Error("ChasePtrOutOfBounds", ptr))
             ELSE Let(decode_struct_instance(
                          d, Unwrap(typed).base.entry.block.head.sdna_nr,
                          Slice(Unwrap(typed).base.entry.block.payload,
                                Unwrap(Unwrap(typed).element_index) * Unwrap(typed).struct_size,
                                Unwrap(typed).struct_size),
                          opt),
                      LAMBDA value :
                         IF ~value.ok THEN value
                         ELSE Ok(<< Unwrap(typed).base.entry.start_old
                                    + Unwrap(Unwrap(typed).element_index)
                                      * Unwrap(typed).struct_size,
                                    value.v >>)))

\* a Library test that looks at the block code only
is_library_id_by_code(code, type_name) == code = "LI"

\* is_library_id
is_library_id(code, type_name) == code = "LI" \/ type_name = "Library"

\* extract_struct_string_field
extract_struct_string_field(value, field_name) ==
    Let(FindField(value.fields, field_name), LAMBDA field :
        IF IsNone(field) THEN None
        ELSE IF Unwrap(field).value.k = "String" THEN Some(Unwrap(field).value.chars)
        ELSE None)

\* field_ptr
field_ptr(refs, field_name) ==
    IF \E i \in 1..Len(refs) : refs[i].field = field_name
    THEN Let(refs[CHOOSE i \in 1..Len(refs) :
                     refs[i].field = field_name
                     /\ \A j \in 1..(i - 1) : refs[j].field # field_name].ptr,
             LAMBDA ptr : IF ptr # 0 THEN Some(ptr) ELSE None)
    ELSE None

\* out.sort_by_key(|item| item.id_ptr): a stable sort
RECURSIVE SortByIdPtr(_)
SortByIdPtr(rs) ==
    IF rs = << >> THEN << >>
    ELSE Let(SortByIdPtr(SubSeq(rs, 1, Len(rs) - 1)), LAMBDA sorted :
             Let(Cardinality({i \in 1..Len(sorted) : sorted[i].id_ptr <= rs[Len(rs)].id_ptr}),
                 LAMBDA k : SubSeq(sorted, 1, k) \o << rs[Len(rs)] >>
                            \o SubSeq(sorted, k + 1, Len(sorted))))

\* "<unknown>" and the prefix "//", as bytes
UnknownPath == << 60, 117, 110, 107, 110, 111, 119, 110, 62 >>
RelativePrefix == << 47, 47 >>

\* the loop of scan_library_records from ID record i on
RECURSIVE LibraryRecordsFrom(_, _, _, _, _)
LibraryRecordsFrom(d, idx, records, i, acc) ==
    IF i > Len(records) THEN Ok(SortByIdPtr(acc))
    ELSE IF ~is_library_id(records[i].code, records[i].type_name)
    THEN LibraryRecordsFrom(d, idx, records, i + 1, acc)
    ELSE Let(decode_ptr_instance(d, idx, records[i].old_ptr, IdDecodeOptions), LAMBDA decoded :
             IF ~decoded.ok THEN decoded
             ELSE Let(extract_struct_string_field(decoded.v[2], "name"), LAMBDA name :
                  Let(IF IsSome(name) THEN Unwrap(name) ELSE UnknownPath, LAMBDA library_path :
                      LibraryRecordsFrom(
                          d, idx, records, i + 1,
                          Append(acc, [id_ptr |-> records[i].old_ptr,
                                       id_name |-> records[i].id_name,
                                       library_path |-> library_path,
                                       is_relative |->
                                          /\ Len(library_path) >= 2
                                          /\ SubSeq(library_path, 1, 2) = RelativePrefix])))))

\* scan_library_records
scan_library_records(bs, d, idx) ==
    Let(scan_id_blocks(bs, d), LAMBDA scanned :
        IF ~scanned.ok THEN scanned
        ELSE LibraryRecordsFrom(d, idx, scanned.v, 1, << >>))

\* the signals of one ID record, in the order they are pushed
LinkSignals(item, id_lib_ptr, override_ptr, weak_ptr, libraries) ==
    (IF IsSome(id_lib_ptr) THEN << [kind |-> "IdLibPtr", ptr |-> Unwrap(id_lib_ptr)] >>
     ELSE << >>)
    \o (IF IsSome(override_ptr)
        THEN << [kind |-> "OverrideLibraryPtr", ptr |-> Unwrap(override_ptr)] >> ELSE << >>)
    \o (IF IsSome(weak_ptr)
        THEN << [kind |-> "LibraryWeakReferencePtr", ptr |-> Unwrap(weak_ptr)] >> ELSE << >>)
    \o (IF /\ is_library_id(item.code, item.type_name)
           /\ \E k \in 1..Len(libraries) : libraries[k].id_ptr = item.old_ptr
        THEN << [kind |-> "LibraryIdPresent", ptr |-> 0] >> ELSE << >>)

\* the IdLinkProvenance of one ID record
LinkProvenance(item, id_lib_ptr, override_ptr, weak_ptr, signals) ==
    Let(IF IsSome(id_lib_ptr) THEN "High"
        ELSE IF IsSome(override_ptr) \/ IsSome(weak_ptr) THEN "Medium"
        ELSE IF \E k \in 1..Len(signals) : signals[k].kind = "LibraryIdPresent" THEN "Low"
        ELSE "None",
        LAMBDA confidence :
           [id_ptr |-> item.old_ptr, id_name |-> item.id_name, type_name |-> item.type_name,
            linked |-> confidence # "None", confidence |-> confidence, signals |-> signals])

\* the body of the loop of scan_id_link_provenance on the record item
LinkProvenanceOf(item, refs, libraries) ==
    Let(<< IF IsSome(item.lib) /\ Unwrap(item.lib) # 0 THEN item.lib
           ELSE field_ptr(refs, "id.lib"),
           field_ptr(refs, "id.override_library"),
           field_ptr(refs, "id.library_weak_reference") >>,
        LAMBDA p :
           LinkProvenance(item, p[1], p[2], p[3],
                          LinkSignals(item, p[1], p[2], p[3], libraries)))

\* the loop of scan_id_link_provenance from ID record i on
RECURSIVE LinkProvenanceFrom(_, _, _, _, _, _)
LinkProvenanceFrom(d, idx, records, libraries, i, acc) ==
    IF i > Len(records) THEN Ok(SortByIdPtr(acc))
    ELSE Let(scan_refs_from_ptr(d, idx, records, records[i].old_ptr,
                                [max_depth |-> 1, max_array_elems |-> 4096]),
             LAMBDA refs :
                IF ~refs.ok THEN refs
                ELSE Let(Append(acc, LinkProvenanceOf(records[i], refs.v, libraries)),
                         LAMBDA pushed :
                            LinkProvenanceFrom(d, idx, records, libraries, i + 1, pushed)))

\* scan_id_link_provenance
scan_id_link_provenance(bs, d, idx) ==
    Let(scan_id_blocks(bs, d), LAMBDA records :
        IF ~records.ok THEN records
        ELSE Let(scan_library_records(bs, d, idx), LAMBDA libraries :
                 IF ~libraries.ok THEN libraries
                 ELSE LinkProvenanceFrom(d, idx, records.v, libraries.v, 1, << >>)))

\* scan_id_link_provenance called on the file
LinkProvenanceCall ==
    /\ op.name = "liblink"
    /\ pc = "start"
    /\ result' = scan_id_link_provenance(blocks, dna, index)
    /\ pc' = "done"
    /\ UNCHANGED <<world, op, locals>>

\* ID headers named "OB" whose three link pointers are null or not
LinkIds ==
    { [lib |-> l, override_library |-> o, library_weak_reference |-> w, name |-> <<79, 66>>] :
        l \in {0, AddrC}, o \in {0, AddrA}, w \in {0, AddrA} }

\* the blocks at old: an Object, a Library under the code LI (with and
\* without a path), a Library under another code, an Object under the code
\* LI, and a Link, which is no ID
LinkBlocksAt(old) ==
    UNION { { IdBlock_of("OB", 1, old, id, 30),
              IdBlock_of("LI", 2, old, id, 28),
              MkBlock("LI", 2, old, 1, IdBytes(id) \o RelativePrefix),
              IdBlock_of("DATA", 2, old, id, 28),
              IdBlock_of("LI", 1, old, id, 30) } : id \in LinkIds }
    \cup { MkBlock("DATA", 3, old, 1, Zeros(8)) }

LinkWorlds ==
    { << b1, b2 >> : b1 \in LinkBlocksAt(AddrB), b2 \in LinkBlocksAt(AddrA) }
    \cup { << b1, b2 >> : b1 \in LinkBlocksAt(AddrA), b2 \in LinkBlocksAt(0) }
    \cup { << b1, b2 >> : b1 \in LinkBlocksAt(AddrA), b2 \in LinkBlocksAt(AddrA + 8) }

InitLiblink ==
    /\ dna = IdDna
    /\ blocks \in LinkWorlds
    /\ index = PointerIndex_build(blocks, "AddressRanges")
    /\ ids = << >>
    /\ op = [name |-> "liblink"]
    /\ pc = "start"
    /\ result = None
    /\ IdleLocals

SpecLiblink == InitLiblink /\ [][LinkProvenanceCall]_vars

LiblinkDone == op.name = "liblink" /\ pc = "done"

\* the pointer stored at the byte offset at of the block's payload
RawPtrAt(block, at) == SumLe(SubSeq(block.payload, at + 1, at + 8), 1)

\* the confidence the classification table gives the ID block
TableConfidence(block) ==
    IF RawPtrAt(block, 0) # 0 THEN "High"
    ELSE IF RawPtrAt(block, 8) # 0 \/ RawPtrAt(block, 16) # 0 THEN "Medium"
    ELSE IF block.head.code = "LI"
            \/ dna.types[dna.structs[block.head.sdna_nr + 1].type_idx + 1] = "Library"
    THEN "Low"
    ELSE "None"

\* C20: scan_id_link_provenance gives every ID record confidence High if its
\* id.lib pointer is non-zero; otherwise Medium if id.override_library or
\* id.library_weak_reference is non-zero; otherwise Low if the record is a
\* Library declaration (code LI or type Library); otherwise None. linked is
\* true exactly when confidence is not None, and the output is ordered by
\* ascending id_ptr.
C20_LinkProvenanceTable ==
    (LiblinkDone /\ result.ok) =>
       /\ Len(result.v) = Cardinality({i \in 1..Len(blocks) : IsIdRootBlock(blocks[i])})
       /\ \A i \in 1..Len(blocks) :
             IsIdRootBlock(blocks[i]) =>
                \E k \in 1..Len(result.v) :
                   /\ result.v[k].id_ptr = blocks[i].head.old
                   /\ result.v[k].confidence = TableConfidence(blocks[i])
                   /\ result.v[k].linked <=> result.v[k].confidence # "None"
       /\ \A k \in 1..(Len(result.v) - 1) : result.v[k].id_ptr <= result.v[k + 1].id_ptr

\* a file whose second block comes first in the output, with a Low Library
\* record under a code other than LI and a Medium record
C20_Witness ==
    /\ LiblinkDone
    /\ result.ok
    /\ Len(result.v) = 2
    /\ blocks[1].head.old = AddrB
    /\ result.v[1].id_ptr = AddrA
    /\ result.v[1].confidence = "Low"
    /\ blocks[2].head.code = "DATA"
    /\ result.v[2].confidence = "Medium"

----------------------------------------------------------------------------
(* Pointers into the unoccupied tail of block B.                           *)

\* the pointers into the bytes of block B that follow its nr elements
TailPtrs == (AddrB + 2 * NodeSize)..(AddrB + Len(blocks[2].payload) - 1)

\* resolve and resolve_typed return the entry of block B for the tail
\* pointer p, without an element, and canonical_ptr returns None
TailResolves(p) ==
    /\ IsSome(PointerIndex_resolve(index, p))
    /\ Unwrap(PointerIndex_resolve(index, p)).entry.block = blocks[2]
    /\ Unwrap(PointerIndex_resolve(index, p)).byte_offset = p - AddrB
    /\ IsSome(PointerIndex_resolve_typed(index, dna, p))
    /\ Unwrap(PointerIndex_resolve_typed(index, dna, p)).base.entry.block = blocks[2]
    /\ Unwrap(PointerIndex_resolve_typed(index, dna, p)).element_index = None
    /\ PointerIndex_canonical_ptr(index, dna, p) = None

\* the scanner reports every tail pointer stored in the instance at owner
\* with resolved = None
TailScansUnresolved(owner) ==
    \A refs \in {scan_refs_from_ptr(dna, index, ids, owner, RefScanOptions_default)} :
       /\ refs.ok
       /\ \A i \in 1..Len(refs.v) : refs.v[i].ptr \in TailPtrs => refs.v[i].resolved = None

\* C21: a pointer inside an indexed block's payload but at or beyond nr *
\* struct_size still resolves: resolve and resolve_typed return the block's
\* entry with element_index = None; canonical_ptr returns None; the reference
\* scanner reports such a pointer field with resolved = None; and
\* chase_from_ptr with on_unresolved_ptr = Stop stops on it with UnresolvedPtr
\* instead of dereferencing.  The scanner is run on the instance the chase
\* read the tail pointer from.
C21_TailPointer ==
    op.name = "chase" =>
       /\ pc = "start" => \A p \in TailPtrs : TailResolves(p)
       /\ \A i \in 1..Len(hops) : hops[i].ptr \notin TailPtrs
       /\ (ChaseEndedOnPtr /\ Unwrap(current).ptr \in TailPtrs /\ hops # << >>)
          => TailScansUnresolved(HopCanonical(hops[Len(hops)]))
       /\ (ChaseEndedOnPtr /\ Unwrap(current).ptr \in TailPtrs
           /\ op.policy.on_unresolved_ptr = "Stop") => ChaseStoppedWith("UnresolvedPtr")

----------------------------------------------------------------------------
(* build_graph_from_ptr under node and edge budgets from 0 upwards.         *)

\* files for the budgeted graphs: the next and other fields of Node A and
\* the next fields of both elements of block B vary
BudgetWorlds ==
    { TraversalBlocks([a |-> Slot(na, oa), b0 |-> Slot(nb0, ob0), b1 |-> Slot(nb1, 0)]) :
        na \in {0, AddrB, AddrB1}, oa \in {0, AddrB1 + 8, AddrC},
        nb0 \in {AddrA, AddrB1}, ob0 \in {0, AddrB},
        nb1 \in {0, AddrA + 4, AddrTail} }

BudgetOptions ==
    [max_depth : 0..MaxLimit, max_nodes : {0, 1, 2, 4096}, max_edges : {0, 1, MaxLimit, 16384},
     ref_scan : {RefScanOptions_default}, id_only : BOOLEAN, skip_null_ptrs : {TRUE}]

InitBudget ==
    /\ dna = NodeDna
    /\ blocks \in BudgetWorlds
    /\ index = PointerIndex_build(blocks, "AddressRanges")
    /\ ids = BfsIds
    /\ \E root_ptr \in {AddrA, AddrB + 4, AddrC}, options \in BudgetOptions :
          op = [name |-> "graph", root_ptr |-> root_ptr, options |-> options]
    /\ pc = "start"
    /\ result = None
    /\ IdleLocals

SpecBudget == InitBudget /\ [][NextGraph]_vars

\* the canonical pointers of the nodes of a graph result
ResultKeys == {result.v.nodes[i].canonical : i \in 1..Len(result.v.nodes)}

\* C22: every GraphResult of build_graph_from_ptr has nodes with pairwise
\* distinct canonical pointers sorted ascending, edges with pairwise distinct
\* (from, to, field) triples sorted by (from, to, field), at most max_nodes
\* nodes and at most max_edges edges for every value of the limits, 0
\* included, and every node other than the root is the target of a chain of
\* at most max_depth resolved references starting at the root.
C22_GraphResultShape ==
    (GraphDone /\ result.ok) =>
       /\ \A i, j \in 1..Len(result.v.nodes) :
             i < j => result.v.nodes[i].canonical < result.v.nodes[j].canonical
       /\ \A i, j \in 1..Len(result.v.edges) :
             i < j => EdgeLess(result.v.edges[i], result.v.edges[j])
       /\ Len(result.v.nodes) <= op.options.max_nodes
       /\ Len(result.v.edges) <= op.options.max_edges
       /\ ResultKeys \subseteq Within(GraphRoot, op.options.max_depth, op.options.ref_scan)

\* C23: in every GraphResult both endpoints of every edge are nodes of the
\* same result, whether or not a budget truncated the search; with id_only
\* every node of the result is the root or carries an ID name; the root is
\* always present.
C23_GraphNoDanglingEdges ==
    (GraphDone /\ result.ok) =>
       /\ \A i \in 1..Len(result.v.edges) :
             /\ result.v.edges[i].from \in ResultKeys
             /\ result.v.edges[i].to \in ResultKeys
       /\ op.options.id_only =>
             \A i \in 1..Len(result.v.nodes) :
                \/ result.v.nodes[i].canonical = GraphRoot
                \/ IsSome(result.v.nodes[i].id_name)
       /\ GraphRoot \in ResultKeys

\* an id_only graph that a budget truncated, from which the filter removed a
\* node and an edge and in which it left an edge
C23_Witness ==
    /\ GraphDone /\ result.ok
    /\ op.options.id_only
    /\ result.v.truncated \in {Some("MaxNodes"), Some("MaxEdges")}
    /\ Cardinality(nodes_by_ptr) > Len(result.v.nodes)
    /\ Len(edges) > Len(result.v.edges)
    /\ Len(result.v.edges) >= 1

\* every resolvable reference of every node of the result is an edge of the
\* result whose target is a node of the result
NothingLeftOut ==
    \A c \in ResultKeys :
       \A e \in RefEdges(c, op.options.ref_scan) :
          e \in SeqRange(result.v.edges) /\ e.to \in ResultKeys

\* C24: build_graph_from_ptr reports a truncation tag only when a budget
\* stopped expansion: when every resolvable reference of every discovered
\* node is in the result as an edge with its target as a node, truncated =
\* None; MaxDepth is not reported when the nodes at depth max_depth have no
\* resolvable outgoing references.
C24_TruncationOnlyWhenCut ==
    (GraphDone /\ result.ok /\ NothingLeftOut) => IsNone(result.v.truncated)

----------------------------------------------------------------------------
(* decode_struct_instance and decode_block_instances (decode.rs) on a       *)
(* schema with nesting, inline arrays and padding fields.                   *)

\* struct Top  { int a; int z[0]; char _pad[2]; uchar b; Mid m; }  (12 bytes)
\* struct Mid  { uchar pad0[4]; Leaf l; }                          (5 bytes)
\* struct Leaf { uchar c; }                                        (1 byte)
\* struct Wide { uchar v[4]; uchar w; }                            (5 bytes)
\* struct Pair { Leaf ls[2]; }                                     (2 bytes)
\* char_len is the length the schema records for the type char
DecDna(char_len) ==
    [names |-> << <<"a">>, <<"z", "[", "0", "]">>, <<"_pad", "[", "2", "]">>, <<"b">>,
                  <<"m">>, <<"pad0", "[", "4", "]">>, <<"l">>, <<"c">>,
                  <<"v", "[", "4", "]">>, <<"w">>, <<"ls", "[", "2", "]">> >>,
     types |-> <<"Top", "Mid", "Leaf", "Wide", "Pair", "int", "char", "uchar">>,
     tlen |-> <<12, 5, 1, 5, 2, 4, char_len, 1>>,
     structs |-> << [type_idx |-> 0,
                     fields |-> << [type_idx |-> 5, name_idx |-> 0],
                                   [type_idx |-> 5, name_idx |-> 1],
                                   [type_idx |-> 6, name_idx |-> 2],
                                   [type_idx |-> 7, name_idx |-> 3],
                                   [type_idx |-> 1, name_idx |-> 4] >>],
                    [type_idx |-> 1,
                     fields |-> << [type_idx |-> 7, name_idx |-> 5],
                                   [type_idx |-> 2, name_idx |-> 6] >>],
                    [type_idx |-> 2,
                     fields |-> << [type_idx |-> 7, name_idx |-> 7] >>],
                    [type_idx |-> 3,
                     fields |-> << [type_idx |-> 7, name_idx |-> 8],
                                   [type_idx |-> 7, name_idx |-> 9] >>],
                    [type_idx |-> 4,
                     fields |-> << [type_idx |-> 2, name_idx |-> 10] >>] >>,
     struct_for_type |-> << Some(0), Some(1), Some(2), Some(3), Some(4), None, None, None >>]

\* the payload of n bytes 1, 2, .. n
CountingBytes(n) == [i \in 1..n |-> i]

DecodeOptionSets ==
    [max_depth : 0..MaxLimit, max_array_elems : {1, MaxLimit, 4096},
     include_padding : BOOLEAN, decode_char_arrays_as_string : BOOLEAN,
     strict_layout : BOOLEAN]

\* the block decode_block_instances is called on
DecodeBlock ==
    [head |-> [code |-> "DATA", sdna_nr |-> op.sdna_nr, old |-> AddrA, len |-> Len(op.bytes),
               nr |-> op.nr],
     payload |-> op.bytes]

\* a call of decode_struct_instance
DecodeCall ==
    /\ op.name = "decode"
    /\ pc = "start"
    /\ result' = decode_struct_instance(dna, op.sdna_nr, op.bytes, op.opt)
    /\ pc' = "done"
    /\ UNCHANGED <<world, op, locals>>

\* a call of decode_block_instances
DecodeBlockCall ==
    /\ op.name = "decode_block"
    /\ pc = "start"
    /\ result' = decode_block_instances(dna, DecodeBlock, op.opt)
    /\ pc' = "done"
    /\ UNCHANGED <<world, op, locals>>

InitDecode ==
    /\ dna \in {DecDna(char_len) : char_len \in 0..2}
    /\ blocks = << >>
    /\ index = PointerIndex_build(<< >>, "AddressRanges")
    /\ ids = << >>
    /\ \E sdna_nr \in 0..5, n \in {0, 5, 12, 14}, opt \in DecodeOptionSets :
          \/ op = [name |-> "decode", sdna_nr |-> sdna_nr, bytes |-> CountingBytes(n),
                   nr |-> 1, opt |-> opt]
          \/ \E nr \in {0, 2, MaxLimit + 1} :
                op = [name |-> "decode_block", sdna_nr |-> sdna_nr,
                      bytes |-> CountingBytes(n), nr |-> nr, opt |-> opt]
    /\ pc = "start"
    /\ result = None
    /\ IdleLocals

NextDecode == DecodeCall \/ DecodeBlockCall

SpecDecode == InitDecode /\ [][NextDecode]_vars

DecodeDone == op.name = "decode" /\ pc = "done"

DecodeBlockDone == op.name = "decode_block" /\ pc = "done"

\* the depth of the deepest struct that decoding the struct sdna_nr at depth
\* has to decode: a field of struct type with a count above 0 and a size
\* above 0 nests its struct one level deeper
RECURSIVE Nesting(_, _, _)
Nesting(d, sdna_nr, depth) ==
    LET item == d.structs[sdna_nr + 1]
        inner == {fi \in 1..Len(item.fields) :
                     /\ IsSome(Dna_struct_for_type(d, item.fields[fi].type_idx))
                     /\ d.tlen[item.fields[fi].type_idx + 1] > 0
                     /\ LET decl == parse_field_decl(Dna_field_name(d, item.fields[fi].name_idx))
                        IN  decl.inline_array > 0 /\ decl.ptr_depth = 0 /\ ~decl.is_func_ptr}
        depths == {Nesting(d, Unwrap(Dna_struct_for_type(d, item.fields[fi].type_idx)),
                           depth + 1) : fi \in inner}
    IN  IF inner = {} THEN depth
        ELSE CHOOSE m \in depths : \A k \in depths : k <= m

\* the same call with a depth limit no struct of the schema reaches
DeepOptions == [op.opt EXCEPT !.max_depth = 16]

IsDecodeErr(r, kind) == ~r.ok /\ r.e.kind = kind

\* the first field of the struct whose inline array count exceeds
\* max_array_elems and that is decoded rather than skipped, or 0
FirstTooLarge(d, item, opt) ==
    LET decls == [fi \in 1..Len(item.fields) |->
                     parse_field_decl(Dna_field_name(d, item.fields[fi].name_idx))]
        large == {fi \in 1..Len(item.fields) :
                     /\ decls[fi].inline_array > opt.max_array_elems
                     /\ ~(/\ ~opt.include_padding
                          /\ is_padding_field(decls[fi].ident,
                                              Dna_type_name(d, item.fields[fi].type_idx),
                                              decls[fi].inline_array))}
    IN  IF large = {} THEN 0 ELSE CHOOSE fi \in large : \A k \in large : fi <= k

\* the fields before field fi decode from the bytes of the call
PrefixDecodes(d, item, fi) ==
    IsNone(decode_fields(d, SubSeq(item.fields, 1, fi - 1), op.bytes, DeepOptions, 0, 1, 0,
                         << >>, << >>).err)

\* C25: decoding fails with DecodeDepthExceeded exactly when a struct nested
\* deeper than max_depth would have to be decoded (the top-level struct being
\* depth 0) and succeeds on nesting up to max_depth; an inline array count or
\* a block element count greater than max_array_elems fails with
\* DecodeArrayTooLarge before any element of that array is read; a [0] field
\* yields an empty sequence and consumes no bytes.
C25_DecodeLimits ==
    /\ (DecodeDone /\ op.sdna_nr < Len(dna.structs)
        /\ decode_struct_instance(dna, op.sdna_nr, op.bytes, DeepOptions).ok)
       => /\ IsDecodeErr(result, "DecodeDepthExceeded")
                <=> Nesting(dna, op.sdna_nr, 0) > op.opt.max_depth
          /\ Nesting(dna, op.sdna_nr, 0) <= op.opt.max_depth => result.ok
    /\ (DecodeDone /\ op.sdna_nr < Len(dna.structs) /\ op.opt.max_depth > 0)
       => \A fi \in {FirstTooLarge(dna, dna.structs[op.sdna_nr + 1], op.opt)} :
             (fi > 0 /\ PrefixDecodes(dna, dna.structs[op.sdna_nr + 1], fi))
             => IsDecodeErr(result, "DecodeArrayTooLarge")
    /\ (DecodeBlockDone /\ op.sdna_nr < Len(dna.structs) /\ op.nr > op.opt.max_array_elems)
       => IsDecodeErr(result, "DecodeArrayTooLarge")
    /\ (DecodeDone /\ result.ok /\ op.sdna_nr = 0 /\ op.opt.include_padding
        /\ ~op.opt.decode_char_arrays_as_string /\ dna.tlen[7] = 0)
       => /\ result.v.fields[2] = FieldValue("z", V_Array(<< >>))
          /\ result.v.fields[1].value = decode_primitive("int", Slice(op.bytes, 0, 4))
          /\ result.v.fields[4].value = decode_primitive("uchar", Slice(op.bytes, 4, 1))

\* the same call with include_padding = true
PaddedOptions == [op.opt EXCEPT !.include_padding = TRUE]

RECURSIVE StripPadding(_, _, _)

\* the value of a field of struct type without the padding fields of its
\* struct: one struct, an array of structs, or what a field of size 0 holds
StripValue(d, sdna_nr, value) ==
    IF value.k = "Struct" THEN V_Struct(StripPadding(d, sdna_nr, value.item))
    ELSE IF value.k = "Array"
    THEN V_Array([i \in 1..Len(value.items) |->
                     V_Struct(StripPadding(d, sdna_nr, value.items[i].item))])
    ELSE value

\* a struct decoded with include_padding = true minus its padding fields
\* (identifier starting with _pad or pad, type char, uchar or uint8_t, count
\* above 0), in the structs it nests as well
StripPadding(d, sdna_nr, item) ==
    LET fields == d.structs[sdna_nr + 1].fields
        decls == [fi \in 1..Len(fields) |->
                     parse_field_decl(Dna_field_name(d, fields[fi].name_idx))]
        kept == [fi \in 1..Len(fields) |->
                    IF is_padding_field(decls[fi].ident, Dna_type_name(d, fields[fi].type_idx),
                                        decls[fi].inline_array)
                    THEN << >>
                    ELSE << FieldValue(item.fields[fi].name,
                               IF /\ IsSome(Dna_struct_for_type(d, fields[fi].type_idx))
                                  /\ decls[fi].ptr_depth = 0 /\ ~decls[fi].is_func_ptr
                               THEN StripValue(d, Unwrap(Dna_struct_for_type(
                                                             d, fields[fi].type_idx)),
                                               item.fields[fi].value)
                               ELSE item.fields[fi].value) >>]
    IN  StructValue(item.type_name, Flat(kept))

\* C26: for every DNA and struct payload, decoding with include_padding =
\* false yields the fields of the include_padding = true decode minus the
\* padding fields, in the same order and with equal values, and both decodes
\* succeed or fail together: skipping a padding field consumes the same
\* number of bytes as decoding it.
C26_PaddingOnlyOmits ==
    (DecodeDone /\ ~op.opt.include_padding) =>
       \A padded \in {decode_struct_instance(dna, op.sdna_nr, op.bytes, PaddedOptions)} :
          /\ result.ok <=> padded.ok
          /\ result.ok => result.v = StripPadding(dna, op.sdna_nr, padded.v)

----------------------------------------------------------------------------
(* What a reported cycle points at.                                         *)

\* the pointer a finished chase reports as a cycle, as a set: that of a
\* Cycle stop or of a ChaseCycle error
ReportedCycle ==
    IF ~ChaseDone THEN {}
    ELSE IF ~result.ok
    THEN (IF result.e.kind = "ChaseCycle" THEN {result.e.ptr} ELSE {})
    ELSE IF ChaseStoppedWith("Cycle") THEN {Unwrap(result.v.stop).reason.ptr}
    ELSE {}

\* C27: a Cycle(p) stop or a ChaseCycle error is produced only when p is the
\* canonical pointer of a struct instance already dereferenced earlier in the
\* same chase; a pointer to an instance never visited before is never
\* reported as a cycle, for any max_visited.
C27_CycleOnlyOnRevisit ==
    \A p \in ReportedCycle : p \in HopCanonicals(hops)

----------------------------------------------------------------------------
(* The ID records of a file against its pointer index.                      *)

\* the record's old_ptr resolves to element 0 of the block stored at it
ResolvesToOwnBlock(record) ==
    \A typed \in {PointerIndex_resolve_typed(index, dna, record.old_ptr)} :
       /\ IsSome(typed)
       /\ Unwrap(typed).base.entry.block.head.old = record.old_ptr
       /\ Unwrap(typed).base.entry.block.head.sdna_nr = record.sdna_nr
       /\ Unwrap(typed).base.byte_offset = 0
       /\ Unwrap(typed).element_index = Some(0)

\* the call failed on a pointer that did not resolve
FailedToResolve ==
    /\ ~result.ok
    /\ result.e.kind \in {"ChaseNullPtr", "ChaseUnresolvedPtr", "ChasePtrOutOfBounds"}

\* C28: on every file on which scan_id_blocks and PointerIndex::build both
\* succeed, every IdRecord.old_ptr resolves in the pointer index to element 0
\* of the record's own block, so the scans over every ID record's old_ptr
\* never fail because an ID-rooted block exists that the index skipped (a
\* block stored with old = 0) or shadowed (one whose start lies inside another
\* block's range).
C28_IdRecordsResolve ==
    op.name = "liblink" =>
       \A records \in {scan_id_blocks(blocks, dna)} :
          records.ok =>
             /\ \A i \in 1..Len(records.v) : ResolvesToOwnBlock(records.v[i])
             /\ LiblinkDone => ~FailedToResolve

----------------------------------------------------------------------------
(* find_inbound_refs_to_ptr as one function of its arguments, to compare    *)
(* the two settings of include_unresolved.                                  *)

RECURSIVE Xref_for_owners(_, _, _, _, _, _, _, _)

\* for owner in &ids.records, from owner i on
Xref_for_owners(d, idx, records, i, target_ptr, target_canonical, options, acc) ==
    IF i > Len(records) THEN Ok(SortInbound(acc))
    ELSE Let(scan_refs_from_ptr(d, idx, records, records[i].old_ptr, options.ref_scan),
             LAMBDA refs :
                IF ~refs.ok THEN refs
                ELSE Let(Xref_for_refs(refs.v, 1, records[i], target_ptr, target_canonical,
                                       options, acc),
                         LAMBDA st :
                            IF st.full THEN Ok(SortInbound(st.out))
                            ELSE Xref_for_owners(d, idx, records, i + 1, target_ptr,
                                                 target_canonical, options, st.out)))

find_inbound_refs_to_ptr(d, idx, records, target_ptr, options) ==
    IF target_ptr = 0 THEN Err(Error("ChaseNullPtr", 0))
    ELSE Let(canonical_ptr_for_target(d, idx, target_ptr), LAMBDA canonical :
             IF ~canonical.ok THEN canonical
             ELSE Xref_for_owners(d, idx, records, 1, target_ptr, canonical.v, options,
                                  << >>))

\* the options of the call with include_unresolved the other way round
OtherUnresolved == [op.options EXCEPT !.include_unresolved = ~@]

\* C29: for every DNA, pointer index, ID index, target pointer and
\* max_results, find_inbound_refs_to_ptr returns the same result with
\* include_unresolved = true as with include_unresolved = false: a reference
\* whose raw pointer equals a target pointer that canonicalized is itself
\* resolved, so the unresolved-match branch never adds a record.
C29_UnresolvedFlagInert ==
    XrefDone =>
       /\ result = find_inbound_refs_to_ptr(dna, index, ids, op.target_ptr, OtherUnresolved)
       /\ result.ok =>
             \A scans \in {OwnerScans} :
                \A i \in 1..Len(scans) :
                   scans[i].ok =>
                      \A j \in 1..Len(scans[i].v) :
                         scans[i].v[j].ptr = op.target_ptr => IsSome(scans[i].v[j].resolved)

\* a lookup with include_unresolved set, of an interior pointer that an owner
\* stores as it is, on a file where another owner holds an unresolved pointer
C29_Witness ==
    /\ XrefDone /\ result.ok
    /\ op.options.include_unresolved
    /\ op.target_ptr = AddrN1 + 8
    /\ Len(result.v) >= 2
    /\ \E scans \in {OwnerScans} :
          /\ \E j \in 1..Len(scans[1].v) : scans[1].v[j].ptr = op.target_ptr
          /\ \E j \in 1..Len(scans[2].v) :
                scans[2].v[j].ptr # 0 /\ IsNone(scans[2].v[j].resolved)

----------------------------------------------------------------------------
(* scan_refs_from_ptr and decode_struct_instance on the same instance: the  *)
(* byte offsets the two give the pointer fields of a struct.                *)

\* struct Holder { <first field>; Holder *p; Holder *q[2]; }      (36 bytes)
\* struct Empty { }                                               (0 bytes)
\* struct Tiny { int v; }                                         (4 bytes)
\* struct Leafy { Holder *deep; }                                 (8 bytes)
\* the types void and nil have length 0; first is the type and the name of
\* the first field of Holder
HolderDna(first) ==
    [names |-> << <<"a">>, <<"*", "p">>, <<"*", "q", "[", "2", "]">>, <<"v">>,
                  <<"*", "deep">>, <<"s", "[", "2", "]">> >>,
     types |-> <<"Holder", "Empty", "Tiny", "Leafy", "int", "void", "char", "nil">>,
     tlen |-> <<36, 0, 4, 8, 4, 0, 1, 0>>,
     structs |-> << [type_idx |-> 0,
                     fields |-> << first,
                                   [type_idx |-> 0, name_idx |-> 1],
                                   [type_idx |-> 0, name_idx |-> 2] >>],
                    [type_idx |-> 1, fields |-> << >>],
                    [type_idx |-> 2, fields |-> << [type_idx |-> 4, name_idx |-> 3] >>],
                    [type_idx |-> 3, fields |-> << [type_idx |-> 0, name_idx |-> 4] >>] >>,
     struct_for_type |-> << Some(0), Some(1), Some(2), Some(3), None, None, None, None >>]

\* the first fields: int a, void a, nil a, Empty a, Tiny a, Leafy a, char s[2]
HolderFirstFields ==
    { [type_idx |-> t, name_idx |-> 0] : t \in {4, 5, 7, 1, 2, 3} }
    \cup { [type_idx |-> 6, name_idx |-> 5] }

\* the bytes the schema declares for the first field: its type length times
\* its count
DeclaredLead(d) ==
    d.tlen[d.structs[1].fields[1].type_idx + 1]
    * parse_field_decl(Dna_field_name(d, d.structs[1].fields[1].name_idx)).inline_array

\* the pointer stored in slot k of the payload
HolderPtr(k) == (k + 1) * 256 + (k + 4) * 65536

\* a Holder payload that stores its three pointers from byte at on
HolderBytes(at) ==
    Zeros(at) \o LeBytes8(HolderPtr(0)) \o LeBytes8(HolderPtr(1)) \o LeBytes8(HolderPtr(2))
    \o Zeros(HolderDna([type_idx |-> 4, name_idx |-> 0]).tlen[1] - at - 24)

\* scan_refs_from_ptr on the Holder instance
OffsetsScan ==
    /\ op.name = "offsets"
    /\ pc = "start"
    /\ result' = scan_refs_from_ptr(dna, index, ids, op.root_ptr, op.options)
    /\ pc' = "loop"
    /\ UNCHANGED <<world, op, locals>>

\* decode_struct_instance on the bytes of the same instance
OffsetsDecode ==
    /\ op.name = "offsets"
    /\ pc = "loop"
    /\ out' = decode_struct_instance(dna, blocks[1].head.sdna_nr,
                                     Slice(blocks[1].payload, 0, dna.tlen[1]), op.decode)
    /\ pc' = "done"
    /\ UNCHANGED <<world, op, result, current, step_index, hops, visited, items, queue,
                   nodes_by_ptr, edges, parents, visited_edges, truncated, hit_depth_limit>>

InitOffsets ==
    /\ dna \in {HolderDna(first) : first \in HolderFirstFields}
    /\ \E shift \in 0..1 :
          blocks = << MkBlock("DATA", 0, AddrA, 1, HolderBytes(DeclaredLead(dna) + shift)) >>
    /\ index = PointerIndex_build(blocks, "AddressRanges")
    /\ ids = << >>
    /\ \E max_depth \in 0..MaxLimit, as_string \in BOOLEAN :
          op = [name |-> "offsets", root_ptr |-> AddrA,
                options |-> [max_depth |-> max_depth, max_array_elems |-> 4096],
                decode |-> [DecodeOptions_default EXCEPT
                               !.include_padding = TRUE,
                               !.decode_char_arrays_as_string = as_string]]
    /\ pc = "start"
    /\ result = None
    /\ IdleLocals

NextOffsets == OffsetsScan \/ OffsetsDecode

SpecOffsets == InitOffsets /\ [][NextOffsets]_vars

OffsetsDone == op.name = "offsets" /\ pc = "done"

\* the pointer the decoded struct holds under the record name: field name,
\* or element i of field name for name[i]
DecodedPtr(item, field) ==
    IF field = "p" THEN Unwrap(FindField(item.fields, "p")).value.ptr
    ELSE IF field = "q[0]" THEN Unwrap(FindField(item.fields, "q")).value.items[1].ptr
    ELSE Unwrap(FindField(item.fields, "q")).value.items[2].ptr

\* C30: the reference scanner and the decoder give every field the same byte
\* offset: on every DNA and struct instance on which both succeed, each
\* top-level pointer record name or name[i] of scan_refs_from_ptr carries the
\* pointer value of field name (element i) of decode_struct_instance with
\* include_padding = true on the same bytes, also for pointer fields that
\* follow void-typed fields, fields whose type length is 0, or nested structs
\* of size 0.
C30_ScannerDecoderOffsets ==
    (OffsetsDone /\ result.ok /\ out.ok) =>
       \A i \in 1..Len(result.v) :
          result.v[i].field \in {"p", "q[0]", "q[1]"}
             => result.v[i].ptr = DecodedPtr(out.v, result.v[i].field)

====
